---- MODULE Spec2Model ----
(***************************************************************************)
(* Model of the ITMO master's-programs chat bot: the relevance classifier, *)
(* the context serializer, the prompt assembler and the response pipeline  *)
(* of AIAssistant, and the Record Store it uses.                           *)
(*                                                                         *)
(* Text is modelled as a sequence of characters.  TLA+ strings are ASCII,  *)
(* so each character is written as a one-element name: a Cyrillic letter   *)
(* by its transliteration ("p", "zh", "shch", "soft" for the soft sign),   *)
(* its capital by the same name in capitals ("P", "ZH"), a Latin letter    *)
(* with the prefix lat_ ("lat_a", capital "LAT_A"), the ruble sign as      *)
(* "ruble", and digits, punctuation, space, tab and newline by             *)
(* themselves.  Distinct characters have                                   *)
(* distinct names, so substring tests on the sequences agree with the      *)
(* substring tests of the program on the original text.                    *)
(***************************************************************************)
EXTENDS Integers, Sequences, FiniteSets, TLC

VARIABLES
  programs,       \* table programs: the stored Program rows, in rowid order
  user_profiles,  \* table user_profiles: user_id -> stored profile, or None
  conversations,  \* table conversations: the rows, in insertion order
  call            \* the operation performed last: its inputs, collaborator calls and result

vars == <<programs, user_profiles, conversations, call>>

(***************************************************************************)
(* Bounds of the model.                                                    *)
(***************************************************************************)
\* the most words in a question given to the classifier
MaxTokens == 4
\* the most rows the conversation log is let to grow to
MaxLog == 1

(***************************************************************************)
(* Text: str.lower, the "in" substring test, str.split, str.strip.         *)
(***************************************************************************)
UpperToLower ==
    ("A" :> "a") @@ ("B" :> "b") @@ ("V" :> "v") @@ ("G" :> "g") @@ ("D" :> "d") @@
    ("E" :> "e") @@ ("YO" :> "yo") @@ ("ZH" :> "zh") @@ ("Z" :> "z") @@ ("I" :> "i") @@
    ("J" :> "j") @@ ("K" :> "k") @@ ("L" :> "l") @@ ("M" :> "m") @@ ("N" :> "n") @@
    ("O" :> "o") @@ ("P" :> "p") @@ ("R" :> "r") @@ ("S" :> "s") @@ ("T" :> "t") @@
    ("U" :> "u") @@ ("F" :> "f") @@ ("KH" :> "kh") @@ ("TS" :> "ts") @@ ("CH" :> "ch") @@
    ("SH" :> "sh") @@ ("SHCH" :> "shch") @@ ("HARD" :> "hard") @@ ("Y" :> "y") @@
    ("SOFT" :> "soft") @@ ("EH" :> "eh") @@ ("YU" :> "yu") @@ ("YA" :> "ya") @@
    ("LAT_A" :> "lat_a") @@ ("LAT_B" :> "lat_b") @@ ("LAT_C" :> "lat_c") @@
    ("LAT_D" :> "lat_d") @@ ("LAT_E" :> "lat_e") @@ ("LAT_F" :> "lat_f") @@
    ("LAT_G" :> "lat_g") @@ ("LAT_H" :> "lat_h") @@ ("LAT_I" :> "lat_i") @@
    ("LAT_J" :> "lat_j") @@ ("LAT_K" :> "lat_k") @@ ("LAT_L" :> "lat_l") @@
    ("LAT_M" :> "lat_m") @@ ("LAT_N" :> "lat_n") @@ ("LAT_O" :> "lat_o") @@
    ("LAT_P" :> "lat_p") @@ ("LAT_Q" :> "lat_q") @@ ("LAT_R" :> "lat_r") @@
    ("LAT_S" :> "lat_s") @@ ("LAT_T" :> "lat_t") @@ ("LAT_U" :> "lat_u") @@
    ("LAT_V" :> "lat_v") @@ ("LAT_W" :> "lat_w") @@ ("LAT_X" :> "lat_x") @@
    ("LAT_Y" :> "lat_y") @@ ("LAT_Z" :> "lat_z")

Whitespace == {" ", "\n", "\t"}

lower_char(c) == IF c \in DOMAIN UpperToLower THEN UpperToLower[c] ELSE c

lower(text) == [i \in 1..Len(text) |-> lower_char(text[i])]

\* keyword in text
contains(text, keyword) ==
  \E i \in 1..(Len(text) - Len(keyword) + 1) :
    SubSeq(text, i, i + Len(keyword) - 1) = keyword

\* len(text.split()): the number of maximal runs of non-whitespace characters
split_len(text) ==
  Cardinality({i \in 1..Len(text) :
                 /\ text[i] \notin Whitespace
                 /\ (i = 1 \/ text[i - 1] \in Whitespace)})

\* text.strip(): leading and trailing whitespace removed
strip(text) ==
  LET keep == {i \in 1..Len(text) : text[i] \notin Whitespace}
  IN  IF keep = {} THEN <<>>
      ELSE SubSeq(text,
                  CHOOSE i \in keep : \A j \in keep : i <= j,
                  CHOOSE i \in keep : \A j \in keep : j <= i)

RECURSIVE join(_, _)
\* sep.join(items)
join(sep, items) ==
  IF items = <<>> THEN <<>>
  ELSE IF Len(items) = 1 THEN items[1]
  ELSE items[1] \o sep \o join(sep, Tail(items))

(***************************************************************************)
(* Relevance classifier: AIAssistant.is_relevant_question.                 *)
(***************************************************************************)
irrelevant_keywords ==
  <<
    <<"p", "o", "g", "o", "d", "a">>,
    <<"s", "p", "o", "r", "t">>,
    <<"p", "o", "l", "i", "t", "i", "k", "a">>,
    <<"n", "o", "v", "o", "s", "t", "i">>,
    <<"r", "e", "ts", "e", "p", "t">>,
    <<"f", "i", "l", "soft", "m">>,
    <<"m", "u", "z", "y", "k", "a">>,
    <<"i", "g", "r", "a">>,
    <<"a", "v", "t", "o", "m", "o", "b", "i", "l", "soft">>,
    <<"p", "u", "t", "e", "sh", "e", "s", "t", "v", "i", "e">>,
    <<"z", "d", "o", "r", "o", "v", "soft", "e">>,
    <<"f", "u", "t", "b", "o", "l">>,
    <<"b", "o", "r", "shch">>,
    <<"p", "r", "i", "g", "o", "t", "o", "v", "i", "t", "soft">>,
    <<"k", "u", "p", "i", "t", "soft">>,
    <<"t", "e", "l", "e", "f", "o", "n">>
  >>

relevant_keywords ==
  <<
    <<"i", "t", "m", "o">>,
    <<"m", "a", "g", "i", "s", "t", "r">>,
    <<"p", "o", "s", "t", "u", "p", "l", "e", "n", "i", "e">>,
    <<"o", "b", "u", "ch", "e", "n", "i", "e">>,
    <<"p", "r", "o", "g", "r", "a", "m", "m", "a">>,
    <<"p", "r", "o", "g", "r", "a", "m", "m", "y">>,
    <<"i", "s", "k", "u", "s", "s", "t", "v", "e", "n", "n", "y", "j", " ", "i", "n", "t", "e", "l", "l", "e", "k", "t">>,
    <<"m", "a", "sh", "i", "n", "n", "o", "e", " ", "o", "b", "u", "ch", "e", "n", "i", "e">>,
    <<"lat_a", "lat_i">>,
    <<"lat_m", "lat_l">>,
    <<"p", "r", "o", "d", "u", "k", "t">>,
    <<"k", "a", "r", "soft", "e", "r", "a">>,
    <<"eh", "k", "z", "a", "m", "e", "n">>,
    <<"d", "o", "k", "u", "m", "e", "n", "t", "y">>,
    <<"b", "yu", "d", "zh", "e", "t">>,
    <<"k", "o", "n", "t", "r", "a", "k", "t">>,
    <<"s", "t", "i", "p", "e", "n", "d", "i", "ya">>,
    <<"o", "b", "shch", "e", "zh", "i", "t", "i", "e">>,
    <<"u", "n", "i", "v", "e", "r", "s", "i", "t", "e", "t">>,
    <<"v", "u", "z">>,
    <<"o", "t", "l", "i", "ch", "a", "yu", "t", "s", "ya">>,
    <<"r", "a", "z", "n", "i", "ts", "a">>,
    <<"s", "r", "a", "v", "n", "i", "t", "soft">>,
    <<"p", "o", "d", "kh", "o", "d", "i", "t">>,
    <<"t", "r", "e", "b", "o", "v", "a", "n", "i", "ya">>,
    <<"s", "t", "o", "i", "m", "o", "s", "t", "soft">>,
    <<"s", "t", "o", "i", "t">>,
    <<"p", "e", "r", "s", "p", "e", "k", "t", "i", "v", "y">>,
    <<"d", "o", "s", "t", "u", "p", "n", "y">>
  >>

any_keyword_in(keywords, text) ==
  \E k \in 1..Len(keywords) : contains(text, keywords[k])

\* The classifier with the inclusion list consulted before the exclusion list.
is_relevant_question_inclusion_first(question) ==
  LET question_lower == lower(question)
  IN  IF any_keyword_in(relevant_keywords, question_lower) THEN TRUE
      ELSE IF any_keyword_in(irrelevant_keywords, question_lower) THEN FALSE
      ELSE IF split_len(question_lower) <= 2 THEN FALSE
      ELSE IF split_len(question_lower) > 3 THEN TRUE
      ELSE FALSE

\* The classifier with the too-short test made before the inclusion list.
is_relevant_question_length_first(question) ==
  LET question_lower == lower(question)
  IN  IF any_keyword_in(irrelevant_keywords, question_lower) THEN FALSE
      ELSE IF split_len(question_lower) <= 2 THEN FALSE
      ELSE IF any_keyword_in(relevant_keywords, question_lower) THEN TRUE
      ELSE IF split_len(question_lower) > 3 THEN TRUE
      ELSE FALSE

\* The classifier with the length test admitting three tokens.
is_relevant_question_three_tokens(question) ==
  LET question_lower == lower(question)
  IN  IF any_keyword_in(irrelevant_keywords, question_lower) THEN FALSE
      ELSE IF any_keyword_in(relevant_keywords, question_lower) THEN TRUE
      ELSE IF split_len(question_lower) <= 2 THEN FALSE
      ELSE IF split_len(question_lower) > 2 THEN TRUE
      ELSE FALSE

\* The classifier scanning the question as written, without lower-casing it.
is_relevant_question_case_sensitive(question) ==
  IF any_keyword_in(irrelevant_keywords, question) THEN FALSE
  ELSE IF any_keyword_in(relevant_keywords, question) THEN TRUE
  ELSE IF split_len(question) <= 2 THEN FALSE
  ELSE IF split_len(question) > 3 THEN TRUE
  ELSE FALSE

is_relevant_question(question) ==
  LET question_lower == lower(question)
  IN  IF any_keyword_in(irrelevant_keywords, question_lower) THEN FALSE
      ELSE IF any_keyword_in(relevant_keywords, question_lower) THEN TRUE
      ELSE IF split_len(question_lower) <= 2 THEN FALSE
      ELSE IF split_len(question_lower) > 3 THEN TRUE
      ELSE FALSE

(***************************************************************************)
(* Questions given to the classifier: up to MaxTokens words of a small     *)
(* vocabulary, separated by single spaces.                                 *)
(***************************************************************************)
\* Pogoda: capitalised, holds the exclusion keyword pogoda once lower-cased
W_WEATHER ==
  <<
    "P", "o", "g", "o", "d", "a"
  >>

\* AI: Latin capitals, holds the inclusion keyword ai once lower-cased
W_AI ==
  <<
    "LAT_A", "LAT_I"
  >>

\* vyigral: holds the exclusion keyword igra inside a longer word
W_WON ==
  <<
    "v", "y", "i", "g", "r", "a", "l"
  >>

\* privet: holds no keyword
W_HELLO ==
  <<
    "p", "r", "i", "v", "e", "t"
  >>

\* magistraturu: holds the inclusion keyword magistr inside a longer word
W_MASTERS ==
  <<
    "m", "a", "g", "i", "s", "t", "r", "a", "t", "u", "r", "u"
  >>

Vocabulary == {W_WEATHER, W_AI, W_WON, W_HELLO, W_MASTERS}

WordLists == UNION {[1..n -> Vocabulary] : n \in 0..MaxTokens}

ClassifierQuestions == {join(<<" ">>, ws) : ws \in WordLists}

(***************************************************************************)
(* Specification of the classifier alone: a question is drawn and the      *)
(* classifier is applied to it.                                            *)
(***************************************************************************)
InitClassifier ==
  /\ programs = <<>>
  /\ user_profiles = <<>>
  /\ conversations = <<>>
  /\ \E q \in ClassifierQuestions :
       call = [op |-> "question", question |-> q]

ClassifyQuestion ==
  /\ call.op = "question"
  /\ call' = [op |-> "is_relevant_question", question |-> call.question,
              result |-> is_relevant_question(call.question)]
  /\ UNCHANGED <<programs, user_profiles, conversations>>

NextClassifier == ClassifyQuestion

SpecClassifier == InitClassifier /\ [][NextClassifier]_vars

(***************************************************************************)
(* Optional values: None, or one value.                                    *)
(***************************************************************************)
Some(v) == <<v>>

IsNone(o) == o = <<>>

Value(o) == o[1]

(***************************************************************************)
(* Record Store: models/database.py.  Each operation takes the table it    *)
(* works on and whether sqlite carries the statement out (ok) or raises,   *)
(* and yields the table afterwards and the value returned.                 *)
(***************************************************************************)
\* an UPDATE in place that leaves the url and created_at of the row it finds
save_program_updating(rows, program, ok) ==
  IF ok
  THEN [rows |-> IF \E i \in 1..Len(rows) : rows[i].name = program.name
                 THEN [i \in 1..Len(rows) |->
                         IF rows[i].name = program.name
                         THEN [program EXCEPT !.url = rows[i].url,
                                              !.created_at = rows[i].created_at]
                         ELSE rows[i]]
                 ELSE Append(rows, program),
        ret |-> TRUE]
  ELSE [rows |-> rows, ret |-> FALSE]

\* a plain INSERT: the new row is added and the old row stays
save_program_inserting(rows, program, ok) ==
  IF ok THEN [rows |-> Append(rows, program), ret |-> TRUE]
  ELSE [rows |-> rows, ret |-> FALSE]

\* INSERT OR REPLACE on the UNIQUE name: the old row goes, the new row is added last
save_program(rows, program, ok) ==
  IF ok
  THEN [rows |-> Append(SelectSeq(rows, LAMBDA r : r.name # program.name), program),
        ret |-> TRUE]
  ELSE [rows |-> rows, ret |-> FALSE]

\* SELECT * FROM programs: every row, or none when the statement raises
get_all_programs(rows, ok) == IF ok THEN rows ELSE <<>>

\* an update that keeps created_at of the row it finds
save_user_profile_keeping_created_at(table, profile, ok) ==
  IF ok
  THEN [table |-> [u \in DOMAIN table \cup {profile.user_id} |->
                     IF u # profile.user_id THEN table[u]
                     ELSE IF u \in DOMAIN table
                          THEN [profile EXCEPT !.created_at = table[u].created_at]
                          ELSE profile],
        ret |-> TRUE]
  ELSE [table |-> table, ret |-> FALSE]

\* INSERT OR REPLACE on the primary key user_id
save_user_profile(table, profile, ok) ==
  IF ok
  THEN [table |-> [u \in DOMAIN table \cup {profile.user_id} |->
                     IF u = profile.user_id THEN profile ELSE table[u]],
        ret |-> TRUE]
  ELSE [table |-> table, ret |-> FALSE]

\* the row of user_id, or None when there is none or the statement raises
get_user_profile(table, user_id, ok) ==
  IF ok /\ user_id \in DOMAIN table THEN Some(table[user_id]) ELSE <<>>

\* a log that keeps one entry for each user: the new entry replaces the user's
save_conversation_latest_per_user(rows, user_id, message, response, timestamp, ok) ==
  IF ok
  THEN [rows |-> Append(SelectSeq(rows, LAMBDA r : r.user_id # user_id),
                        [user_id |-> user_id, message |-> message,
                         response |-> response, timestamp |-> timestamp]),
        ret |-> TRUE]
  ELSE [rows |-> rows, ret |-> FALSE]

\* an INSERT that stays although the write is reported as failed
save_conversation_kept_on_failure(rows, user_id, message, response, timestamp, ok) ==
  [rows |-> Append(rows, [user_id |-> user_id, message |-> message,
                          response |-> response, timestamp |-> timestamp]),
   ret |-> ok]

\* INSERT INTO conversations
save_conversation(rows, user_id, message, response, timestamp, ok) ==
  IF ok
  THEN [rows |-> Append(rows, [user_id |-> user_id, message |-> message,
                               response |-> response, timestamp |-> timestamp]),
        ret |-> TRUE]
  ELSE [rows |-> rows, ret |-> FALSE]

(***************************************************************************)
(* The fixed texts of AIAssistant.                                         *)
(***************************************************************************)
\* src/utils/ai_assistant.py:181
REDIRECT_MESSAGE ==
  <<
    "\n", "YA", " ", "s", "p", "e", "ts", "i", "a", "l", "i", "z", "i", "r", "u", "yu", "s",
    "soft", " ", "t", "o", "l", "soft", "k", "o", " ", "n", "a", " ", "v", "o", "p", "r", "o",
    "s", "a", "kh", ",", " ", "s", "v", "ya", "z", "a", "n", "n", "y", "kh", " ", "s", " ",
    "m", "a", "g", "i", "s", "t", "e", "r", "s", "k", "i", "m", "i", " ", "p", "r", "o", "g",
    "r", "a", "m", "m", "a", "m", "i", " ", "I", "T", "M", "O", " ", "v", " ", "o", "b", "l",
    "a", "s", "t", "i", " ", "i", "s", "k", "u", "s", "s", "t", "v", "e", "n", "n", "o", "g",
    "o", " ", "i", "n", "t", "e", "l", "l", "e", "k", "t", "a", ":", "\n", "bullet", " ", "\"",
    "I", "s", "k", "u", "s", "s", "t", "v", "e", "n", "n", "y", "j", " ", "i", "n", "t", "e",
    "l", "l", "e", "k", "t", "\"", "\n", "bullet", " ", "\"", "U", "p", "r", "a", "v", "l",
    "e", "n", "i", "e", " ", "I", "I", "-", "p", "r", "o", "d", "u", "k", "t", "a", "m", "i",
    "/", "LAT_A", "LAT_I", " ", "LAT_P", "lat_r", "lat_o", "lat_d", "lat_u", "lat_c", "lat_t",
    "\"", "\n", "\n", "P", "o", "zh", "a", "l", "u", "j", "s", "t", "a", ",", " ", "z", "a",
    "d", "a", "j", "t", "e", " ", "v", "o", "p", "r", "o", "s", " ", "o", " ", "p", "o", "s",
    "t", "u", "p", "l", "e", "n", "i", "i", ",", " ", "o", "b", "u", "ch", "e", "n", "i", "i",
    ",", " ", "k", "a", "r", "soft", "e", "r", "n", "y", "kh", " ", "p", "e", "r", "s", "p",
    "e", "k", "t", "i", "v", "a", "kh", " ", "i", "l", "i", " ", "d", "r", "u", "g", "i", "kh",
    " ", "a", "s", "p", "e", "k", "t", "a", "kh", " ", "eh", "t", "i", "kh", " ", "p", "r",
    "o", "g", "r", "a", "m", "m", ".", "\n"
  >>

\* src/utils/ai_assistant.py:237
RESPONSE_FALLBACK ==
  <<
    "I", "z", "v", "i", "n", "i", "t", "e", ",", " ", "p", "r", "o", "i", "z", "o", "sh", "l",
    "a", " ", "o", "sh", "i", "b", "k", "a", " ", "p", "r", "i", " ", "o", "b", "r", "a", "b",
    "o", "t", "k", "e", " ", "v", "a", "sh", "e", "g", "o", " ", "z", "a", "p", "r", "o", "s",
    "a", ".", " ", "P", "o", "p", "r", "o", "b", "u", "j", "t", "e", " ", "e", "shch", "e",
    " ", "r", "a", "z", "."
  >>

\* src/utils/ai_assistant.py:277
RECOMMENDATION_FALLBACK ==
  <<
    "N", "e", " ", "u", "d", "a", "l", "o", "s", "soft", " ", "s", "g", "e", "n", "e", "r",
    "i", "r", "o", "v", "a", "t", "soft", " ", "r", "e", "k", "o", "m", "e", "n", "d", "a",
    "ts", "i", "yu", ".", " ", "P", "o", "p", "r", "o", "b", "u", "j", "t", "e", " ", "p", "o",
    "z", "zh", "e", "."
  >>

\* src/utils/ai_assistant.py:314
COMPARISON_FALLBACK ==
  <<
    "N", "e", " ", "u", "d", "a", "l", "o", "s", "soft", " ", "v", "y", "p", "o", "l", "n",
    "i", "t", "soft", " ", "s", "r", "a", "v", "n", "e", "n", "i", "e", " ", "p", "r", "o",
    "g", "r", "a", "m", "m", ".", " ", "P", "o", "p", "r", "o", "b", "u", "j", "t", "e", " ",
    "p", "o", "z", "zh", "e", "."
  >>

\* src/utils/ai_assistant.py:351
ADMISSION_GUIDE_FALLBACK ==
  <<
    "N", "e", " ", "u", "d", "a", "l", "o", "s", "soft", " ", "s", "o", "z", "d", "a", "t",
    "soft", " ", "g", "i", "d", " ", "p", "o", " ", "p", "o", "s", "t", "u", "p", "l", "e",
    "n", "i", "yu", ".", " ", "P", "o", "p", "r", "o", "b", "u", "j", "t", "e", " ", "p", "o",
    "z", "zh", "e", "."
  >>

(***************************************************************************)
(* The Context Serializer: get_programs_context, _format_directions and    *)
(* _format_faq.  A dict read from the JSON columns is a function whose     *)
(* domain holds the keys that are present.                                 *)
(***************************************************************************)
\* dict.get(key, default)
dict_get(dict, key, default) == IF key \in DOMAIN dict THEN dict[key] ELSE default

Digits == <<"0", "1", "2", "3", "4", "5", "6", "7", "8", "9">>

\* str(n) of a natural number, as an f-string renders it
RECURSIVE str_int(_)
str_int(n) ==
  IF n < 10 THEN <<Digits[n + 1]>> ELSE str_int(n \div 10) \o <<Digits[(n % 10) + 1]>>

\* the separator of ', '.join(...)
COMMA_SPACE == <<",", " ">>

\* the default of direction.get('name', ...) and direction.get('code', ...)
N_A ==
  <<"LAT_N", "/", "LAT_A">>

NOT_FOUND_DIRECTIONS ==
  <<"I", "n", "f", "o", "r", "m", "a", "ts", "i", "ya", " ", "o", " ", "n",
    "a", "p", "r", "a", "v", "l", "e", "n", "i", "ya", "kh", " ", "n", "e",
    " ", "n", "a", "j", "d", "e", "n", "a">>

NOT_FOUND_FAQ ==
  <<"LAT_F", "LAT_A", "LAT_Q", " ", "n", "e", " ", "n", "a", "j", "d", "e",
    "n">>

\* the two result += ... lines of one direction
format_direction(direction) ==
  <<"-", " ">>
  \o dict_get(direction, "name", N_A)
  \o <<" ", "(">>
  \o dict_get(direction, "code", N_A)
  \o <<")", "\n">>
  \o <<" ", " ", "B", "yu", "d", "zh", "e", "t", ":", " ">>
  \o str_int(dict_get(direction, "budget_places", 0))
  \o <<",", " ">>
  \o <<"TS", "e", "l", "e", "v", "y", "e", ":", " ">>
  \o str_int(dict_get(direction, "target_places", 0))
  \o <<",", " ">>
  \o <<"K", "o", "n", "t", "r", "a", "k", "t", ":", " ">>
  \o str_int(dict_get(direction, "contract_places", 0))
  \o <<"\n">>

\* The directions with nothing rendered for an empty list.
_format_directions_no_sentinel(directions) ==
  join(<<>>, [i \in 1..Len(directions) |-> format_direction(directions[i])])

_format_directions(directions) ==
  IF directions = <<>> THEN NOT_FOUND_DIRECTIONS
  ELSE join(<<>>, [i \in 1..Len(directions) |-> format_direction(directions[i])])

\* the two result += ... lines of one FAQ entry
format_qa(qa) ==
  <<"LAT_Q", ":", " ">>
  \o dict_get(qa, "question", <<>>)
  \o <<"\n">>
  \o <<"LAT_A", ":", " ">>
  \o dict_get(qa, "answer", <<>>)
  \o <<"\n", "\n">>

\* faq[:5]
first_five(faq) == SubSeq(faq, 1, IF Len(faq) < 5 THEN Len(faq) ELSE 5)

\* The FAQ rendered whole.
_format_faq_unbounded(faq) ==
  IF faq = <<>> THEN NOT_FOUND_FAQ
  ELSE join(<<>>, [i \in 1..Len(faq) |-> format_qa(faq[i])])

_format_faq(faq) ==
  IF faq = <<>> THEN NOT_FOUND_FAQ
  ELSE LET shown == first_five(faq)
       IN  join(<<>>, [i \in 1..Len(shown) |-> format_qa(shown[i])])

\* the block that context += f"""...""" adds for one program
program_block(program) ==
  <<"\n", "P", "R", "O", "G", "R", "A", "M", "M", "A", ":", " ">>
  \o program.name
  \o <<"\n", "LAT_U", "LAT_R", "LAT_L", ":", " ">>
  \o program.url
  \o <<"\n", "I", "n", "s", "t", "i", "t", "u", "t", ":", " ">>
  \o program.institute
  \o <<"\n", "D", "l", "i", "t", "e", "l", "soft", "n", "o", "s", "t",
       "soft", ":", " ">>
  \o program.duration
  \o <<"\n", "YA", "z", "y", "k", " ", "o", "b", "u", "ch", "e", "n", "i",
       "ya", ":", " ">>
  \o program.language
  \o <<"\n", "S", "t", "o", "i", "m", "o", "s", "t", "soft", ":", " ">>
  \o program.cost
  \o <<"\n", "\n", "O", "p", "i", "s", "a", "n", "i", "e", ":", " ">>
  \o program.description
  \o <<"\n", "\n", "N", "a", "p", "r", "a", "v", "l", "e", "n", "i", "ya",
       " ", "p", "o", "d", "g", "o", "t", "o", "v", "k", "i", ":", "\n">>
  \o _format_directions(program.directions)
  \o <<"\n", "\n", "K", "a", "r", "soft", "e", "r", "n", "y", "e", " ", "p",
       "e", "r", "s", "p", "e", "k", "t", "i", "v", "y", ":", "\n">>
  \o join(COMMA_SPACE, program.career_prospects)
  \o <<"\n", "\n", "P", "a", "r", "t", "n", "e", "r", "y", ":", "\n">>
  \o join(COMMA_SPACE, program.partners)
  \o <<"\n", "\n", "S", "p", "o", "s", "o", "b", "y", " ", "p", "o", "s",
       "t", "u", "p", "l", "e", "n", "i", "ya", ":", "\n">>
  \o join(COMMA_SPACE, program.admission_ways)
  \o <<"\n", "\n", "D", "a", "t", "y", " ", "eh", "k", "z", "a", "m", "e",
       "n", "o", "v", ":", "\n">>
  \o join(COMMA_SPACE, program.exam_dates)
  \o <<"\n", "\n", "LAT_F", "LAT_A", "LAT_Q", ":", "\n">>
  \o _format_faq(program.faq)
  \o <<"\n", "\n", "-", "-", "-", "\n">>

\* The context with the blocks in the reverse of the stored order.
get_programs_context_reversed(rows, ok) ==
  LET all_programs == get_all_programs(rows, ok)
      n == Len(all_programs)
  IN  join(<<>>, [i \in 1..n |-> program_block(all_programs[n + 1 - i])])

get_programs_context(rows, ok) ==
  LET all_programs == get_all_programs(rows, ok)
  IN  join(<<>>, [i \in 1..Len(all_programs) |-> program_block(all_programs[i])])

(***************************************************************************)
(* The Prompt Assembler: the system preamble and the user message of each  *)
(* of the four operations.                                                 *)
(***************************************************************************)
system_prompt ==
  <<"\n", "T", "y", " ", "-", " ", "eh", "k", "s", "p", "e", "r", "t", "-",
    "k", "o", "n", "s", "u", "l", "soft", "t", "a", "n", "t", " ", "p", "o",
    " ", "m", "a", "g", "i", "s", "t", "e", "r", "s", "k", "i", "m", " ",
    "p", "r", "o", "g", "r", "a", "m", "m", "a", "m", " ", "I", "T", "M",
    "O", " ", "v", " ", "o", "b", "l", "a", "s", "t", "i", " ", "i", "s",
    "k", "u", "s", "s", "t", "v", "e", "n", "n", "o", "g", "o", " ", "i",
    "n", "t", "e", "l", "l", "e", "k", "t", "a", ".", "\n", "T", "v", "o",
    "ya", " ", "z", "a", "d", "a", "ch", "a", " ", "-", " ", "p", "o", "m",
    "o", "ch", "soft", " ", "a", "b", "i", "t", "u", "r", "i", "e", "n", "t",
    "a", "m", " ", "v", "y", "b", "r", "a", "t", "soft", " ", "p", "o", "d",
    "kh", "o", "d", "ya", "shch", "u", "yu", " ", "p", "r", "o", "g", "r",
    "a", "m", "m", "u", " ", "i", " ", "s", "p", "l", "a", "n", "i", "r",
    "o", "v", "a", "t", "soft", " ", "o", "b", "u", "ch", "e", "n", "i", "e",
    ".", "\n", "\n", "U", " ", "t", "e", "b", "ya", " ", "e", "s", "t",
    "soft", " ", "d", "o", "s", "t", "u", "p", " ", "k", " ", "i", "n", "f",
    "o", "r", "m", "a", "ts", "i", "i", " ", "o", " ", "d", "v", "u", "kh",
    " ", "p", "r", "o", "g", "r", "a", "m", "m", "a", "kh", ":", "\n", "1",
    ".", " ", "\"", "I", "s", "k", "u", "s", "s", "t", "v", "e", "n", "n",
    "y", "j", " ", "i", "n", "t", "e", "l", "l", "e", "k", "t", "\"", " ",
    "-", " ", "t", "e", "kh", "n", "i", "ch", "e", "s", "k", "a", "ya", " ",
    "p", "r", "o", "g", "r", "a", "m", "m", "a", " ", "s", " ", "f", "o",
    "k", "u", "s", "o", "m", " ", "n", "a", " ", "LAT_M", "LAT_L", " ",
    "LAT_E", "lat_n", "lat_g", "lat_i", "lat_n", "lat_e", "lat_e", "lat_r",
    "lat_i", "lat_n", "lat_g", ",", " ", "LAT_D", "lat_a", "lat_t", "lat_a",
    " ", "LAT_E", "lat_n", "lat_g", "lat_i", "lat_n", "lat_e", "lat_e",
    "lat_r", "lat_i", "lat_n", "lat_g", ",", " ", "LAT_A", "LAT_I", " ",
    "LAT_P", "lat_r", "lat_o", "lat_d", "lat_u", "lat_c", "lat_t", " ",
    "LAT_D", "lat_e", "lat_v", "lat_e", "lat_l", "lat_o", "lat_p", "lat_m",
    "lat_e", "lat_n", "lat_t", "\n", "2", ".", " ", "\"", "U", "p", "r", "a",
    "v", "l", "e", "n", "i", "e", " ", "I", "I", "-", "p", "r", "o", "d",
    "u", "k", "t", "a", "m", "i", "/", "LAT_A", "LAT_I", " ", "LAT_P",
    "lat_r", "lat_o", "lat_d", "lat_u", "lat_c", "lat_t", "\"", " ", "-",
    " ", "p", "r", "o", "d", "u", "k", "t", "o", "v", "a", "ya", " ", "p",
    "r", "o", "g", "r", "a", "m", "m", "a", " ", "s", " ", "f", "o", "k",
    "u", "s", "o", "m", " ", "n", "a", " ", "LAT_A", "LAT_I", " ", "LAT_P",
    "lat_r", "lat_o", "lat_d", "lat_u", "lat_c", "lat_t", " ", "LAT_M",
    "lat_a", "lat_n", "lat_a", "lat_g", "lat_e", "lat_m", "lat_e", "lat_n",
    "lat_t", "\n", "\n", "V", "A", "ZH", "N", "Y", "E", " ", "P", "R", "A",
    "V", "I", "L", "A", ":", "\n", "-", " ", "O", "t", "v", "e", "ch", "a",
    "j", " ", "T", "O", "L", "SOFT", "K", "O", " ", "n", "a", " ", "v", "o",
    "p", "r", "o", "s", "y", ",", " ", "s", "v", "ya", "z", "a", "n", "n",
    "y", "e", " ", "s", " ", "eh", "t", "i", "m", "i", " ", "d", "v", "u",
    "m", "ya", " ", "m", "a", "g", "i", "s", "t", "e", "r", "s", "k", "i",
    "m", "i", " ", "p", "r", "o", "g", "r", "a", "m", "m", "a", "m", "i",
    " ", "I", "T", "M", "O", "\n", "-", " ", "E", "s", "l", "i", " ", "v",
    "o", "p", "r", "o", "s", " ", "n", "e", " ", "k", "a", "s", "a", "e",
    "t", "s", "ya", " ", "o", "b", "u", "ch", "e", "n", "i", "ya", " ", "v",
    " ", "d", "a", "n", "n", "y", "kh", " ", "m", "a", "g", "i", "s", "t",
    "r", "a", "t", "u", "r", "a", "kh", ",", " ", "v", "e", "zh", "l", "i",
    "v", "o", " ", "p", "e", "r", "e", "n", "a", "p", "r", "a", "v", "soft",
    " ", "p", "o", "l", "soft", "z", "o", "v", "a", "t", "e", "l", "ya", " ",
    "k", " ", "r", "e", "l", "e", "v", "a", "n", "t", "n", "o", "j", " ",
    "t", "e", "m", "e", "\n", "-", " ", "I", "s", "p", "o", "l", "soft", "z",
    "u", "j", " ", "t", "o", "l", "soft", "k", "o", " ", "p", "r", "o", "v",
    "e", "r", "e", "n", "n", "u", "yu", " ", "i", "n", "f", "o", "r", "m",
    "a", "ts", "i", "yu", " ", "i", "z", " ", "b", "a", "z", "y", " ", "d",
    "a", "n", "n", "y", "kh", "\n", "-", " ", "D", "a", "v", "a", "j", " ",
    "k", "o", "n", "k", "r", "e", "t", "n", "y", "e", " ", "i", " ", "p",
    "r", "a", "k", "t", "i", "ch", "n", "y", "e", " ", "r", "e", "k", "o",
    "m", "e", "n", "d", "a", "ts", "i", "i", "\n", "-", " ", "U", "ch", "i",
    "t", "y", "v", "a", "j", " ", "b", "eh", "k", "g", "r", "a", "u", "n",
    "d", " ", "i", " ", "ts", "e", "l", "i", " ", "a", "b", "i", "t", "u",
    "r", "i", "e", "n", "t", "a", " ", "p", "r", "i", " ", "s", "o", "s",
    "t", "a", "v", "l", "e", "n", "i", "i", " ", "r", "e", "k", "o", "m",
    "e", "n", "d", "a", "ts", "i", "j", "\n", "\n", "F", "o", "r", "m", "a",
    "t", " ", "o", "t", "v", "e", "t", "o", "v", ":", "\n", "-", " ", "S",
    "t", "r", "u", "k", "t", "u", "r", "i", "r", "o", "v", "a", "n", "n",
    "y", "e", " ", "i", " ", "i", "n", "f", "o", "r", "m", "a", "t", "i",
    "v", "n", "y", "e", "\n", "-", " ", "S", " ", "k", "o", "n", "k", "r",
    "e", "t", "n", "y", "m", "i", " ", "p", "r", "i", "m", "e", "r", "a",
    "m", "i", "\n", "-", " ", "S", " ", "u", "ch", "e", "t", "o", "m", " ",
    "k", "a", "r", "soft", "e", "r", "n", "y", "kh", " ", "p", "e", "r", "s",
    "p", "e", "k", "t", "i", "v", "\n", "-", " ", "S", " ", "r", "e", "k",
    "o", "m", "e", "n", "d", "a", "ts", "i", "ya", "m", "i", " ", "p", "o",
    " ", "v", "y", "b", "o", "r", "n", "y", "m", " ", "d", "i", "s", "ts",
    "i", "p", "l", "i", "n", "a", "m", " ", "(", "e", "s", "l", "i", " ",
    "p", "r", "i", "m", "e", "n", "i", "m", "o", ")", "\n">>

\* the text of 'не указана'
NOT_SPECIFIED ==
  <<"n", "e", " ", "u", "k", "a", "z", "a", "n", "a">>

\* value or default, of an Optional text: None and the empty text are both falsy
or_default(value, default) ==
  IF IsNone(value) \/ Value(value) = <<>> THEN default ELSE Value(value)

\* repr of a str without control characters: single quotes, or double quotes
\* when the text holds a single quote and no double quote; the quote in use
\* and the backslash are escaped
repr_str(text) ==
  LET quote == IF (\E i \in 1..Len(text) : text[i] = "'")
                  /\ ~(\E i \in 1..Len(text) : text[i] = "\"")
               THEN "\"" ELSE "'"
      escaped == join(<<>>, [i \in 1..Len(text) |->
                   IF text[i] = "\\" \/ text[i] = quote THEN <<"\\", text[i]>>
                   ELSE IF text[i] = "\n" THEN <<"\\", "lat_n">>
                   ELSE IF text[i] = "\t" THEN <<"\\", "lat_t">>
                   ELSE <<text[i]>>])
  IN  <<quote>> \o escaped \o <<quote>>

\* str of the background dict: {} or {'description': '...'}
repr_background(background) ==
  IF DOMAIN background = {} THEN <<"{", "}">>
  ELSE <<"{", "'", "lat_d", "lat_e", "lat_s", "lat_c", "lat_r", "lat_i", "lat_p",
         "lat_t", "lat_i", "lat_o", "lat_n", "'", ":", " ">>
       \o repr_str(background.description) \o <<"}">>

\* the f-string of profile_context
profile_block(user_profile) ==
  <<"\n", "P", "R", "O", "F", "I", "L", "SOFT", " ", "P", "O", "L",
       "SOFT", "Z", "O", "V", "A", "T", "E", "L", "YA", ":", "\n", "I", "n",
       "t", "e", "r", "e", "s", "y", ":", " ">>
  \o join(COMMA_SPACE, user_profile.interests)
  \o <<"\n", "T", "e", "kh", "n", "i", "ch", "e", "s", "k", "i", "e", " ",
       "n", "a", "v", "y", "k", "i", ":", " ">>
  \o join(COMMA_SPACE, user_profile.technical_skills)
  \o <<"\n", "K", "a", "r", "soft", "e", "r", "n", "y", "e", " ", "ts", "e",
       "l", "i", ":", " ">>
  \o join(COMMA_SPACE, user_profile.career_goals)
  \o <<"\n", "P", "r", "e", "d", "p", "o", "ch", "i", "t", "a", "e", "m",
       "a", "ya", " ", "p", "r", "o", "g", "r", "a", "m", "m", "a", ":", " ">>
  \o or_default(user_profile.preferred_program, NOT_SPECIFIED)
  \o <<"\n">>

\* The profile context left out for a profile whose three lists are empty.
get_profile_context_skipping_empty(user_profile_read) ==
  IF IsNone(user_profile_read) THEN <<>>
  ELSE IF /\ Value(user_profile_read).interests = <<>>
          /\ Value(user_profile_read).technical_skills = <<>>
          /\ Value(user_profile_read).career_goals = <<>>
  THEN <<>>
  ELSE profile_block(Value(user_profile_read))

\* profile_context of get_response: empty unless get_user_profile returned a
\* profile
get_profile_context(user_profile_read) ==
  IF IsNone(user_profile_read) THEN <<>>
  ELSE profile_block(Value(user_profile_read))

Message(role, content) == [role |-> role, content |-> content]

\* The messages of get_response with the question put before the contexts.
response_messages_question_first(programs_context, profile_context, user_message) ==
  <<Message("system", system_prompt),
    Message("user", user_message \o programs_context \o profile_context)>>

\* messages of get_response
response_messages(programs_context, profile_context, user_message) ==
  <<Message("system", system_prompt),
    Message("user",
      <<"\n">>
      \o programs_context
      \o <<"\n", "\n">>
      \o profile_context
      \o <<"\n", "\n", "V", "O", "P", "R", "O", "S", " ", "P", "O", "L",
           "SOFT", "Z", "O", "V", "A", "T", "E", "L", "YA", ":", " ">>
      \o user_message
      \o <<"\n", "\n", "P", "o", "zh", "a", "l", "u", "j", "s", "t", "a",
           ",", " ", "d", "a", "j", " ", "p", "o", "d", "r", "o", "b", "n",
           "y", "j", " ", "i", " ", "p", "o", "l", "e", "z", "n", "y", "j",
           " ", "o", "t", "v", "e", "t", ",", " ", "o", "s", "n", "o", "v",
           "a", "n", "n", "y", "j", " ", "n", "a", " ", "p", "r", "e", "d",
           "o", "s", "t", "a", "v", "l", "e", "n", "n", "o", "j", " ", "i",
           "n", "f", "o", "r", "m", "a", "ts", "i", "i", " ", "o", " ", "p",
           "r", "o", "g", "r", "a", "m", "m", "a", "kh", ".", "\n">>)>>

\* messages of compare_programs
comparison_messages(programs_context) ==
  <<Message("system", system_prompt),
    Message("user",
      <<"\n">>
      \o programs_context
      \o <<"\n", "\n", "Z", "A", "D", "A", "CH", "A", ":", " ", "S", "o",
           "z", "d", "a", "j", " ", "p", "o", "d", "r", "o", "b", "n", "o",
           "e", " ", "s", "r", "a", "v", "n", "e", "n", "i", "e", " ", "d",
           "v", "u", "kh", " ", "p", "r", "o", "g", "r", "a", "m", "m", " ",
           "m", "a", "g", "i", "s", "t", "r", "a", "t", "u", "r", "y", " ",
           "I", "T", "M", "O", ":", "\n", "\n", "S", "r", "a", "v", "n", "i",
           " ", "p", "r", "o", "g", "r", "a", "m", "m", "y", " ", "p", "o",
           " ", "s", "l", "e", "d", "u", "yu", "shch", "i", "m", " ", "k",
           "r", "i", "t", "e", "r", "i", "ya", "m", ":", "\n", "1", ".", " ",
           "F", "o", "k", "u", "s", " ", "i", " ", "s", "p", "e", "ts", "i",
           "a", "l", "i", "z", "a", "ts", "i", "ya", "\n", "2", ".", " ",
           "K", "a", "r", "soft", "e", "r", "n", "y", "e", " ", "v", "o",
           "z", "m", "o", "zh", "n", "o", "s", "t", "i", "\n", "3", ".", " ",
           "P", "a", "r", "t", "n", "e", "r", "y", " ", "i", " ", "p", "r",
           "o", "e", "k", "t", "y", "\n", "4", ".", " ", "N", "a", "p", "r",
           "a", "v", "l", "e", "n", "i", "ya", " ", "p", "o", "d", "g", "o",
           "t", "o", "v", "k", "i", " ", "i", " ", "k", "o", "l", "i", "ch",
           "e", "s", "t", "v", "o", " ", "m", "e", "s", "t", "\n", "5", ".",
           " ", "S", "p", "o", "s", "o", "b", "y", " ", "p", "o", "s", "t",
           "u", "p", "l", "e", "n", "i", "ya", "\n", "6", ".", " ", "D", "l",
           "ya", " ", "k", "o", "g", "o", " ", "p", "o", "d", "kh", "o", "d",
           "i", "t", " ", "k", "a", "zh", "d", "a", "ya", " ", "p", "r", "o",
           "g", "r", "a", "m", "m", "a", "\n", "\n", "P", "r", "e", "d", "s",
           "t", "a", "v", "soft", " ", "i", "n", "f", "o", "r", "m", "a",
           "ts", "i", "yu", " ", "v", " ", "s", "t", "r", "u", "k", "t", "u",
           "r", "i", "r", "o", "v", "a", "n", "n", "o", "m", " ", "v", "i",
           "d", "e", ",", " ", "v", "y", "d", "e", "l", "ya", "ya", " ", "k",
           "l", "yu", "ch", "e", "v", "y", "e", " ", "r", "a", "z", "l", "i",
           "ch", "i", "ya", ".", "\n">>)>>

\* messages of generate_admission_guide
admission_guide_messages(programs_context) ==
  <<Message("system", system_prompt),
    Message("user",
      <<"\n">>
      \o programs_context
      \o <<"\n", "\n", "Z", "A", "D", "A", "CH", "A", ":", " ", "S", "o",
           "z", "d", "a", "j", " ", "p", "o", "d", "r", "o", "b", "n", "y",
           "j", " ", "g", "i", "d", " ", "p", "o", " ", "p", "o", "s", "t",
           "u", "p", "l", "e", "n", "i", "yu", " ", "n", "a", " ", "p", "r",
           "o", "g", "r", "a", "m", "m", "y", " ", "m", "a", "g", "i", "s",
           "t", "r", "a", "t", "u", "r", "y", " ", "I", "T", "M", "O", " ",
           "p", "o", " ", "I", "I", ".", "\n", "\n", "V", "k", "l", "yu",
           "ch", "i", " ", "s", "l", "e", "d", "u", "yu", "shch", "u", "yu",
           " ", "i", "n", "f", "o", "r", "m", "a", "ts", "i", "yu", ":",
           "\n", "1", ".", " ", "V", "s", "e", " ", "s", "p", "o", "s", "o",
           "b", "y", " ", "p", "o", "s", "t", "u", "p", "l", "e", "n", "i",
           "ya", " ", "(", "eh", "k", "z", "a", "m", "e", "n", "y", ",", " ",
           "k", "o", "n", "k", "u", "r", "s", "y", ",", " ", "p", "o", "r",
           "t", "f", "o", "l", "i", "o", " ", "i", " ", "t", ".", "d", ".",
           ")", "\n", "2", ".", " ", "D", "a", "t", "y", " ", "i", " ", "s",
           "r", "o", "k", "i", "\n", "3", ".", " ", "T", "r", "e", "b", "o",
           "v", "a", "n", "i", "ya", " ", "i", " ", "d", "o", "k", "u", "m",
           "e", "n", "t", "y", "\n", "4", ".", " ", "S", "o", "v", "e", "t",
           "y", " ", "p", "o", " ", "p", "o", "d", "g", "o", "t", "o", "v",
           "k", "e", " ", "k", " ", "k", "a", "zh", "d", "o", "m", "u", " ",
           "s", "p", "o", "s", "o", "b", "u", " ", "p", "o", "s", "t", "u",
           "p", "l", "e", "n", "i", "ya", "\n", "5", ".", " ", "K", "o", "l",
           "i", "ch", "e", "s", "t", "v", "o", " ", "m", "e", "s", "t", " ",
           "n", "a", " ", "k", "a", "zh", "d", "o", "m", " ", "n", "a", "p",
           "r", "a", "v", "l", "e", "n", "i", "i", "\n", "6", ".", " ", "S",
           "t", "o", "i", "m", "o", "s", "t", "soft", " ", "o", "b", "u",
           "ch", "e", "n", "i", "ya", " ", "i", " ", "v", "o", "z", "m", "o",
           "zh", "n", "o", "s", "t", "i", " ", "p", "o", "l", "u", "ch", "e",
           "n", "i", "ya", " ", "s", "t", "i", "p", "e", "n", "d", "i", "j",
           "\n", "\n", "S", "t", "r", "u", "k", "t", "u", "r", "i", "r", "u",
           "j", " ", "i", "n", "f", "o", "r", "m", "a", "ts", "i", "yu", " ",
           "t", "a", "k", ",", " ", "ch", "t", "o", "b", "y", " ", "o", "n",
           "a", " ", "b", "y", "l", "a", " ", "m", "a", "k", "s", "i", "m",
           "a", "l", "soft", "n", "o", " ", "p", "o", "l", "e", "z", "n",
           "a", " ", "d", "l", "ya", " ", "a", "b", "i", "t", "u", "r", "i",
           "e", "n", "t", "a", ".", "\n">>)>>

\* The recommendation asked for with the messages of the comparison.
recommendation_messages_unprofiled(programs_context, user_profile) ==
  comparison_messages(programs_context)

\* messages of generate_program_recommendation
recommendation_messages(programs_context, user_profile) ==
  <<Message("system", system_prompt),
    Message("user",
      <<"\n">>
      \o programs_context
      \o <<"\n", "\n", "P", "R", "O", "F", "I", "L", "SOFT", " ", "A", "B",
           "I", "T", "U", "R", "I", "E", "N", "T", "A", ":", "\n", "I", "n",
           "t", "e", "r", "e", "s", "y", ":", " ">>
      \o join(COMMA_SPACE, user_profile.interests)
      \o <<"\n", "T", "e", "kh", "n", "i", "ch", "e", "s", "k", "i", "e",
           " ", "n", "a", "v", "y", "k", "i", ":", " ">>
      \o join(COMMA_SPACE, user_profile.technical_skills)
      \o <<"\n", "K", "a", "r", "soft", "e", "r", "n", "y", "e", " ", "ts",
           "e", "l", "i", ":", " ">>
      \o join(COMMA_SPACE, user_profile.career_goals)
      \o <<"\n", "D", "o", "p", "o", "l", "n", "i", "t", "e", "l", "soft",
           "n", "a", "ya", " ", "i", "n", "f", "o", "r", "m", "a", "ts", "i",
           "ya", ":", " ">>
      \o repr_background(user_profile.background)
      \o <<"\n", "\n", "Z", "A", "D", "A", "CH", "A", ":", " ", "P", "r",
           "o", "a", "n", "a", "l", "i", "z", "i", "r", "u", "j", " ", "p",
           "r", "o", "f", "i", "l", "soft", " ", "a", "b", "i", "t", "u",
           "r", "i", "e", "n", "t", "a", " ", "i", " ", "d", "a", "j", " ",
           "d", "e", "t", "a", "l", "soft", "n", "u", "yu", " ", "r", "e",
           "k", "o", "m", "e", "n", "d", "a", "ts", "i", "yu", ":", "\n",
           "1", ".", " ", "K", "a", "k", "a", "ya", " ", "p", "r", "o", "g",
           "r", "a", "m", "m", "a", " ", "l", "u", "ch", "sh", "e", " ", "p",
           "o", "d", "kh", "o", "d", "i", "t", " ", "i", " ", "p", "o", "ch",
           "e", "m", "u", "\n", "2", ".", " ", "K", "o", "n", "k", "r", "e",
           "t", "n", "y", "e", " ", "p", "r", "e", "i", "m", "u", "shch",
           "e", "s", "t", "v", "a", " ", "v", "y", "b", "r", "a", "n", "n",
           "o", "j", " ", "p", "r", "o", "g", "r", "a", "m", "m", "y", " ",
           "d", "l", "ya", " ", "d", "a", "n", "n", "o", "g", "o", " ", "p",
           "r", "o", "f", "i", "l", "ya", "\n", "3", ".", " ", "R", "e", "k",
           "o", "m", "e", "n", "d", "a", "ts", "i", "i", " ", "p", "o", " ",
           "p", "o", "d", "g", "o", "t", "o", "v", "k", "e", " ", "k", " ",
           "p", "o", "s", "t", "u", "p", "l", "e", "n", "i", "yu", "\n", "4",
           ".", " ", "LAT_S", "lat_u", "lat_g", "lat_g", "lat_e", "lat_s",
           "lat_t", "lat_e", "lat_d", " ", "t", "r", "a", "e", "k", "t", "o",
           "r", "i", "ya", " ", "o", "b", "u", "ch", "e", "n", "i", "ya",
           " ", "(", "k", "a", "k", "i", "e", " ", "k", "u", "r", "s", "y",
           "/", "p", "r", "o", "e", "k", "t", "y", " ", "v", "y", "b", "r",
           "a", "t", "soft", ")", "\n", "5", ".", " ", "K", "a", "r", "soft",
           "e", "r", "n", "y", "e", " ", "p", "e", "r", "s", "p", "e", "k",
           "t", "i", "v", "y", " ", "p", "o", "s", "l", "e", " ", "o", "k",
           "o", "n", "ch", "a", "n", "i", "ya", "\n", "\n", "B", "u", "d",
           "soft", " ", "k", "o", "n", "k", "r", "e", "t", "n", "y", "m",
           " ", "i", " ", "o", "b", "o", "s", "n", "o", "v", "a", "n", "n",
           "y", "m", " ", "v", " ", "s", "v", "o", "i", "kh", " ", "r", "e",
           "k", "o", "m", "e", "n", "d", "a", "ts", "i", "ya", "kh", ".", "\n">>)>>

(***************************************************************************)
(* The language-model client.  A completion is what one invocation of      *)
(* client.chat.completions.create does: it raises, or it returns a         *)
(* response with a list of choices, each with a content that is a text or  *)
(* None.                                                                   *)
(***************************************************************************)
Event(name, args, ret) == [name |-> name, args |-> args, ret |-> ret]

\* The invocation made again when it raised.
invoke_model_retrying(messages, completion, max_tokens, temperature) ==
  LET e == Event("create", <<messages, max_tokens, temperature>>, completion)
  IN  IF completion.raises THEN <<e, e>> ELSE <<e>>

\* client.chat.completions.create(model, messages, max_tokens, temperature):
\* one invocation; the temperature is written in tenths
invoke_model(messages, completion, max_tokens, temperature) ==
  <<Event("create", <<messages, max_tokens, temperature>>, completion)>>

\* A missing content read as the empty text.
completion_text_lenient(completion) ==
  IF completion.raises \/ completion.choices = <<>>
  THEN [raised |-> TRUE, text |-> <<>>]
  ELSE IF IsNone(completion.choices[1].content)
  THEN [raised |-> FALSE, text |-> <<>>]
  ELSE [raised |-> FALSE, text |-> strip(Value(completion.choices[1].content))]

\* The content returned as it came, not stripped.
completion_text_unstripped(completion) ==
  IF \/ completion.raises
     \/ completion.choices = <<>>
     \/ IsNone(completion.choices[1].content)
  THEN [raised |-> TRUE, text |-> <<>>]
  ELSE [raised |-> FALSE, text |-> Value(completion.choices[1].content)]

\* response.choices[0].message.content.strip(): raises when the invocation raised,
\* when there is no choice and when the content is None
completion_text(completion) ==
  IF \/ completion.raises
     \/ completion.choices = <<>>
     \/ IsNone(completion.choices[1].content)
  THEN [raised |-> TRUE, text |-> <<>>]
  ELSE [raised |-> FALSE, text |-> strip(Value(completion.choices[1].content))]

(***************************************************************************)
(* Inputs of the response pipeline.                                        *)
(***************************************************************************)
UserIds == {1, 2}

\* Kakaya segodnya pogoda?
Q_WEATHER ==
  <<
    "K", "a", "k", "a", "ya", " ", "s", "e", "g", "o", "d", "n", "ya", " ", "p", "o", "g", "o",
    "d", "a", "?"
  >>

\* Chem otlichayutsya programmy?
Q_DIFFER ==
  <<
    "CH", "e", "m", " ", "o", "t", "l", "i", "ch", "a", "yu", "t", "s", "ya", " ", "p", "r",
    "o", "g", "r", "a", "m", "m", "y", "?"
  >>

\* Da
Q_YES ==
  <<
    "D", "a"
  >>

\* message.text: a text, or None for a message without text
UserMessages == {<<>>, Some(Q_WEATHER), Some(Q_DIFFER), Some(Q_YES)}

T_PADDED ==
  <<
    " ", "LAT_X", "\n"
  >>

T_BLANK ==
  <<
    " ", "\n"
  >>

NLP ==
  <<
    "LAT_N", "LAT_L", "LAT_P"
  >>

PYTHON ==
  <<
    "LAT_P", "lat_y", "lat_t", "lat_h", "lat_o", "lat_n"
  >>

DATA_SCIENTIST ==
  <<"LAT_D", "lat_a", "lat_t", "lat_a", " ", "LAT_S", "lat_c", "lat_i",
    "lat_e", "lat_n", "lat_t", "lat_i", "lat_s", "lat_t">>

PROGRAM_AI ==
  <<
    "I", "s", "k", "u", "s", "s", "t", "v", "e", "n", "n", "y", "j", " ", "i", "n", "t", "e",
    "l", "l", "e", "k", "t"
  >>

PROGRAM_AI_PRODUCT ==
  <<
    "U", "p", "r", "a", "v", "l", "e", "n", "i", "e", " ", "I", "I", "-", "p", "r", "o", "d",
    "u", "k", "t", "a", "m", "i", "/", "LAT_A", "LAT_I", " ", "LAT_P", "lat_r", "lat_o",
    "lat_d", "lat_u", "lat_c", "lat_t"
  >>

ModelTexts == {T_PADDED, T_BLANK}

Completions ==
  {[raises |-> TRUE, choices |-> <<>>],
   [raises |-> FALSE, choices |-> <<[content |-> <<>>]>>]}
  \cup {[raises |-> FALSE, choices |-> <<[content |-> Some(t)]>>] : t \in ModelTexts}

Timestamps == {"2025-01-01T12:00:00"}

\* what the collaborators do during one get_response
Envs ==
  [profile_read_ok : BOOLEAN, programs_read_ok : BOOLEAN, completion : Completions,
   now : Timestamps, save_ok : BOOLEAN]

\* what the collaborators do during one report generator
ReportEnvs == [programs_read_ok : BOOLEAN, completion : Completions]

ProfileInput(user_id) ==
  [user_id |-> user_id, username |-> "user", background |-> [description |-> <<>>],
   interests |-> IF user_id = 1 THEN <<NLP>> ELSE <<>>,
   technical_skills |-> IF user_id = 1 THEN <<PYTHON>> ELSE <<>>,
   career_goals |-> IF user_id = 1 THEN <<DATA_SCIENTIST>> ELSE <<>>,
   preferred_program |-> IF user_id = 1 THEN Some(PROGRAM_AI) ELSE <<>>,
   created_at |-> "2025-01-01T12:00:00", updated_at |-> "2025-01-01T12:00:00"]

\* https://abit.itmo.ru/program/master/ai
URL_AI ==
  <<"lat_h", "lat_t", "lat_t", "lat_p", "lat_s", ":", "/", "/", "lat_a", "lat_b",
    "lat_i", "lat_t", ".", "lat_i", "lat_t", "lat_m", "lat_o", ".", "lat_r",
    "lat_u", "/", "lat_p", "lat_r", "lat_o", "lat_g", "lat_r", "lat_a", "lat_m",
    "/", "lat_m", "lat_a", "lat_s", "lat_t", "lat_e", "lat_r", "/", "lat_a",
    "lat_i">>

ProgramInputs ==
  {[name |-> PROGRAM_AI, url |-> URL_AI,
    institute |-> <<>>, duration |-> <<>>, language |-> <<>>, cost |-> <<>>,
    description |-> <<>>, directions |-> <<>>, career_prospects |-> <<>>,
    partners |-> <<>>, team |-> <<>>, admission_ways |-> <<>>, faq |-> <<>>,
    exam_dates |-> <<>>,
    created_at |-> "2025-01-01T12:00:00", updated_at |-> "2025-01-01T12:00:00"]}

(***************************************************************************)
(* AIAssistant.  An operation yields its outcome: the text returned, or    *)
(* that an exception left it (raised), the collaborator calls it made in   *)
(* order (events), and the conversation log afterwards.                    *)
(***************************************************************************)
Returned(text, events, log) ==
  [raised |-> FALSE, result |-> text, events |-> events, conversations |-> log]

Raised(events, log) ==
  [raised |-> TRUE, result |-> <<>>, events |-> events, conversations |-> log]

\* except Exception: return the fallback text
except_return(outcome, fallback) ==
  IF outcome.raised THEN [outcome EXCEPT !.raised = FALSE, !.result = fallback]
  ELSE outcome

\* The gate that lets every question through.
question_rejected_never(question) == FALSE

\* self.is_relevant_question(user_message) for the messages of the model, worked out once
Relevance == [q \in {Value(m) : m \in UserMessages \ {<<>>}} |-> is_relevant_question(q)]

\* if not self.is_relevant_question(user_message)
question_rejected(question) == ~Relevance[question]

\* The answer withheld when the log write failed.
answer_after_save_checked(ai_response, saved) ==
  IF saved THEN ai_response ELSE RESPONSE_FALLBACK

\* return ai_response: the return value of save_conversation is not looked at
answer_after_save(ai_response, saved) == ai_response

\* get_response reading the store before the question is classified.
get_response_try_reading_first(db, user_message, user_id, env) ==
  LET user_profile == get_user_profile(db.user_profiles, user_id, env.profile_read_ok)
      e2 == Event("get_user_profile", <<user_id>>, user_profile)
      all_programs == get_all_programs(db.programs, env.programs_read_ok)
      e3 == Event("get_all_programs", <<>>, all_programs)
  IN  IF IsNone(user_message)
      THEN Raised(<<e2, e3, Event("is_relevant_question", <<user_message>>, "raised")>>,
                  db.conversations)
      ELSE
        LET question == Value(user_message)
            rejected == question_rejected(question)
            e1 == Event("is_relevant_question", <<question>>, ~rejected)
            messages == response_messages(
                          get_programs_context(db.programs, env.programs_read_ok),
                          get_profile_context(user_profile), question)
            e4 == invoke_model(messages, env.completion, 1500, 7)
            text == completion_text(env.completion)
        IN  IF rejected THEN Returned(REDIRECT_MESSAGE, <<e2, e3, e1>>, db.conversations)
            ELSE IF text.raised THEN Raised(<<e2, e3, e1>> \o e4, db.conversations)
            ELSE
              LET saved == save_conversation(db.conversations, user_id, question,
                                             text.text, env.now, env.save_ok)
                  e5 == Event("save_conversation",
                              <<user_id, question, text.text, env.now>>, saved.ret)
              IN  Returned(answer_after_save(text.text, saved.ret),
                           <<e2, e3, e1>> \o e4 \o <<e5>>, saved.rows)

\* the try block of get_response
get_response_try(db, user_message, user_id, env) ==
  IF IsNone(user_message)
  THEN \* question.lower() on None raises
       Raised(<<Event("is_relevant_question", <<user_message>>, "raised")>>,
              db.conversations)
  ELSE
    LET question == Value(user_message)
        rejected == question_rejected(question)
        e1 == Event("is_relevant_question", <<question>>, ~rejected)
    IN  IF rejected THEN Returned(REDIRECT_MESSAGE, <<e1>>, db.conversations)
        ELSE
          LET user_profile == get_user_profile(db.user_profiles, user_id,
                                               env.profile_read_ok)
              e2 == Event("get_user_profile", <<user_id>>, user_profile)
              all_programs == get_all_programs(db.programs, env.programs_read_ok)
              e3 == Event("get_all_programs", <<>>, all_programs)
              profile_context == get_profile_context(user_profile)
              programs_context == get_programs_context(db.programs,
                                                       env.programs_read_ok)
              messages == response_messages(programs_context, profile_context,
                                            question)
              e4 == invoke_model(messages, env.completion, 1500, 7)
              text == completion_text(env.completion)
          IN  IF text.raised
              THEN Raised(<<e1, e2, e3>> \o e4, db.conversations)
              ELSE
                LET ai_response == text.text
                    saved == save_conversation(db.conversations, user_id, question,
                                               ai_response, env.now, env.save_ok)
                    e5 == Event("save_conversation",
                                <<user_id, question, ai_response, env.now>>, saved.ret)
                IN  Returned(answer_after_save(ai_response, saved.ret),
                             <<e1, e2, e3>> \o e4 \o <<e5>>, saved.rows)

\* get_response with no except clause.
get_response_uncaught(db, user_message, user_id, env) ==
  get_response_try(db, user_message, user_id, env)

get_response(db, user_message, user_id, env) ==
  except_return(get_response_try(db, user_message, user_id, env), RESPONSE_FALLBACK)

\* programs_context as a report generator gets it
report_context(db, env) == get_programs_context(db.programs, env.programs_read_ok)

\* the try block of a report generator: the programs are read and the messages
\* are built from their context; built is these messages, or None when
\* building them raises, as reading the fields of a profile that is None does;
\* the model is invoked once and its text is returned stripped
report_try(db, env, built, max_tokens, temperature) ==
  LET all_programs == get_all_programs(db.programs, env.programs_read_ok)
      e1 == Event("get_all_programs", <<>>, all_programs)
  IN  IF IsNone(built) THEN Raised(<<e1>>, db.conversations)
      ELSE
        LET e2 == invoke_model(Value(built), env.completion, max_tokens, temperature)
            text == completion_text(env.completion)
        IN  IF text.raised THEN Raised(<<e1>> \o e2, db.conversations)
            ELSE Returned(text.text, <<e1>> \o e2, db.conversations)

generate_program_recommendation(db, user_profile, env) ==
  LET built == IF IsNone(user_profile) THEN <<>>
               ELSE Some(recommendation_messages(report_context(db, env),
                                                 Value(user_profile)))
  IN  except_return(report_try(db, env, built, 2000, 6), RECOMMENDATION_FALLBACK)

\* The comparison logged as a conversation.
compare_programs_logged(db, env) ==
  LET built == Some(comparison_messages(report_context(db, env)))
      out == except_return(report_try(db, env, built, 2000, 5), COMPARISON_FALLBACK)
  IN  [out EXCEPT !.conversations =
         save_conversation(db.conversations, 0, <<>>, out.result,
                           "2025-01-01T12:00:00", TRUE).rows]

\* The comparison answering a failure with the fallback text of get_response.
compare_programs_generic_fallback(db, env) ==
  LET built == Some(comparison_messages(report_context(db, env)))
  IN  except_return(report_try(db, env, built, 2000, 5), RESPONSE_FALLBACK)

compare_programs(db, env) ==
  LET built == Some(comparison_messages(report_context(db, env)))
  IN  except_return(report_try(db, env, built, 2000, 5), COMPARISON_FALLBACK)

generate_admission_guide(db, env) ==
  LET built == Some(admission_guide_messages(report_context(db, env)))
  IN  except_return(report_try(db, env, built, 2000, 5), ADMISSION_GUIDE_FALLBACK)

(***************************************************************************)
(* The specification: the operations of the assistant and the writes of    *)
(* the Record Store, in any order, starting from an empty database.        *)
(***************************************************************************)
db == [programs |-> programs, user_profiles |-> user_profiles,
       conversations |-> conversations]

Init ==
  /\ programs = <<>>
  /\ user_profiles = <<>>
  /\ conversations = <<>>
  /\ call = [op |-> "init"]

Finish(op, args, out) ==
  /\ Len(out.conversations) <= MaxLog
  /\ conversations' = out.conversations
  /\ call' = [op |-> op, args |-> args, raised |-> out.raised,
              result |-> out.result, events |-> out.events,
              before |-> conversations]
  /\ UNCHANGED <<programs, user_profiles>>

GetResponse ==
  \E user_message \in UserMessages, user_id \in UserIds, env \in Envs :
    Finish("get_response", <<user_message, user_id>>,
           get_response(db, user_message, user_id, env))

GenerateProgramRecommendation ==
  \E user_profile \in {<<>>} \cup {Some(ProfileInput(u)) : u \in UserIds},
     env \in ReportEnvs :
    Finish("generate_program_recommendation", <<user_profile>>,
           generate_program_recommendation(db, user_profile, env))

ComparePrograms ==
  \E env \in ReportEnvs :
    Finish("compare_programs", <<>>, compare_programs(db, env))

GenerateAdmissionGuide ==
  \E env \in ReportEnvs :
    Finish("generate_admission_guide", <<>>, generate_admission_guide(db, env))

SaveProgram ==
  \E program \in ProgramInputs, ok \in BOOLEAN :
    LET out == save_program(programs, program, ok)
    IN  /\ programs' = out.rows
        /\ call' = [op |-> "save_program", args |-> <<program>>, result |-> out.ret]
        /\ UNCHANGED <<user_profiles, conversations>>

SaveUserProfile ==
  \E user_id \in UserIds, ok \in BOOLEAN :
    LET out == save_user_profile(user_profiles, ProfileInput(user_id), ok)
    IN  /\ user_profiles' = out.table
        /\ call' = [op |-> "save_user_profile", args |-> <<ProfileInput(user_id)>>,
                    result |-> out.ret]
        /\ UNCHANGED <<programs, conversations>>

Next ==
  \/ GetResponse
  \/ GenerateProgramRecommendation
  \/ ComparePrograms
  \/ GenerateAdmissionGuide
  \/ SaveProgram
  \/ SaveUserProfile

Spec == Init /\ [][Next]_vars

(***************************************************************************)
(* Inputs of the Context Serializer and of the Prompt Assembler: the       *)
(* program of the test fixture, with FAQ lists longer than five entries,   *)
(* and a second program with every list empty.                             *)
(***************************************************************************)
\* the most entries of a FAQ list: one more than the five that are rendered
MaxFaq == 6

\* the most directions of a list given to _format_directions
MaxDirections == 2

\* institut prikladnykh kompyuternykh nauk
INSTITUTE ==
  <<"i", "n", "s", "t", "i", "t", "u", "t", " ", "p", "r", "i", "k", "l",
    "a", "d", "n", "y", "kh", " ", "k", "o", "m", "p", "soft", "yu", "t",
    "e", "r", "n", "y", "kh", " ", "n", "a", "u", "k">>

\* 2 goda
DURATION ==
  <<"2", " ", "g", "o", "d", "a">>

\* russkij
LANGUAGE ==
  <<"r", "u", "s", "s", "k", "i", "j">>

\* 599 000 rubles
COST ==
  <<"5", "9", "9", " ", "0", "0", "0", " ", "ruble">>

\* Sozdavajte AI-produkty i tekhnologii, kotorye menyayut mir.
DESCRIPTION ==
  <<"S", "o", "z", "d", "a", "v", "a", "j", "t", "e", " ", "LAT_A", "LAT_I",
    "-", "p", "r", "o", "d", "u", "k", "t", "y", " ", "i", " ", "t", "e",
    "kh", "n", "o", "l", "o", "g", "i", "i", ",", " ", "k", "o", "t", "o",
    "r", "y", "e", " ", "m", "e", "n", "ya", "yu", "t", " ", "m", "i", "r",
    ".">>

\* Informatika i vychislitelnaya tekhnika
DIRECTION_NAME ==
  <<"I", "n", "f", "o", "r", "m", "a", "t", "i", "k", "a", " ", "i", " ",
    "v", "y", "ch", "i", "s", "l", "i", "t", "e", "l", "soft", "n", "a",
    "ya", " ", "t", "e", "kh", "n", "i", "k", "a">>

\* 09.04.01
DIRECTION_CODE ==
  <<"0", "9", ".", "0", "4", ".", "0", "1">>

\* ML Engineer
ML_ENGINEER ==
  <<"LAT_M", "LAT_L", " ", "LAT_E", "lat_n", "lat_g", "lat_i", "lat_n",
    "lat_e", "lat_e", "lat_r">>

\* Data Engineer
DATA_ENGINEER ==
  <<"LAT_D", "lat_a", "lat_t", "lat_a", " ", "LAT_E", "lat_n", "lat_g",
    "lat_i", "lat_n", "lat_e", "lat_e", "lat_r">>

\* X5 Group
X5_GROUP ==
  <<"LAT_X", "5", " ", "LAT_G", "lat_r", "lat_o", "lat_u", "lat_p">>

\* Ozon Bank
OZON_BANK ==
  <<"LAT_O", "lat_z", "lat_o", "lat_n", " ", "LAT_B", "lat_a", "lat_n",
    "lat_k">>

\* Dmitrij Sergeevich Botov
TEAM_NAME ==
  <<"D", "m", "i", "t", "r", "i", "j", " ", "S", "e", "r", "g", "e", "e",
    "v", "i", "ch", " ", "B", "o", "t", "o", "v">>

\* Rukovoditel programmy
TEAM_POSITION ==
  <<"R", "u", "k", "o", "v", "o", "d", "i", "t", "e", "l", "soft", " ", "p",
    "r", "o", "g", "r", "a", "m", "m", "y">>

\* kandidat tekhnicheskikh nauk
TEAM_DESCRIPTION ==
  <<"k", "a", "n", "d", "i", "d", "a", "t", " ", "t", "e", "kh", "n", "i",
    "ch", "e", "s", "k", "i", "kh", " ", "n", "a", "u", "k">>

\* Vstupitelnyj ehkzamen
ADMISSION_EXAM ==
  <<"V", "s", "t", "u", "p", "i", "t", "e", "l", "soft", "n", "y", "j", " ",
    "eh", "k", "z", "a", "m", "e", "n">>

\* Konkurs Junior ML Contest
ADMISSION_CONTEST ==
  <<"K", "o", "n", "k", "u", "r", "s", " ", "LAT_J", "lat_u", "lat_n",
    "lat_i", "lat_o", "lat_r", " ", "LAT_M", "LAT_L", " ", "LAT_C", "lat_o",
    "lat_n", "lat_t", "lat_e", "lat_s", "lat_t">>

\* 29.07.2025, 11:00
EXAM_DATE ==
  <<"2", "9", ".", "0", "7", ".", "2", "0", "2", "5", ",", " ", "1", "1",
    ":", "0", "0">>

\* https://abit.itmo.ru/program/master/ai_product
URL_AI_PRODUCT ==
  <<"lat_h", "lat_t", "lat_t", "lat_p", "lat_s", ":", "/", "/", "lat_a",
    "lat_b", "lat_i", "lat_t", ".", "lat_i", "lat_t", "lat_m", "lat_o", ".",
    "lat_r", "lat_u", "/", "lat_p", "lat_r", "lat_o", "lat_g", "lat_r",
    "lat_a", "lat_m", "/", "lat_m", "lat_a", "lat_s", "lat_t", "lat_e",
    "lat_r", "/", "lat_a", "lat_i", "_", "lat_p", "lat_r", "lat_o", "lat_d",
    "lat_u", "lat_c", "lat_t">>

\* Vopros, followed by the number of the entry
QUESTION_STEM ==
  <<"V", "o", "p", "r", "o", "s", " ">>

\* Otvet, followed by the number of the entry
ANSWER_STEM ==
  <<"O", "t", "v", "e", "t", " ">>

\* the direction of the fixture
DIRECTION ==
  [name |-> DIRECTION_NAME, code |-> DIRECTION_CODE, budget_places |-> 51,
   target_places |-> 4, contract_places |-> 55]

\* a direction as _extract_directions leaves it when it finds no code and no
\* numbers: the code is the empty text
DIRECTION_SCRAPED ==
  [name |-> DIRECTION_NAME, code |-> <<>>, budget_places |-> 0,
   target_places |-> 0, contract_places |-> 0]

\* a direction dict without the key code
DIRECTION_WITHOUT_CODE ==
  [name |-> DIRECTION_NAME, budget_places |-> 51, target_places |-> 4,
   contract_places |-> 55]

DirectionInputs == {DIRECTION, DIRECTION_SCRAPED, DIRECTION_WITHOUT_CODE}

DirectionLists == UNION {[1..n -> DirectionInputs] : n \in 0..MaxDirections}

\* the i-th FAQ entry
faq_entry(i) ==
  [question |-> QUESTION_STEM \o str_int(i) \o <<"?">>,
   answer |-> ANSWER_STEM \o str_int(i) \o <<".">>]

\* the FAQ entries 1..n in order, the same in reverse order, and the entries
\* 1..n with an entry that has no answer put first
FaqLists ==
  {[i \in 1..n |-> faq_entry(i)] : n \in 0..MaxFaq}
  \cup {[i \in 1..n |-> faq_entry(n + 1 - i)] : n \in 0..MaxFaq}
  \cup {<<[question |-> QUESTION_STEM]>> \o [i \in 1..n |-> faq_entry(i)] :
          n \in 0..(MaxFaq - 1)}

PROGRAM_FULL ==
  [name |-> PROGRAM_AI, url |-> URL_AI, institute |-> INSTITUTE,
   duration |-> DURATION, language |-> LANGUAGE, cost |-> COST,
   description |-> DESCRIPTION, directions |-> <<DIRECTION>>,
   career_prospects |-> <<ML_ENGINEER, DATA_ENGINEER>>,
   partners |-> <<X5_GROUP, OZON_BANK>>,
   team |-> <<[name |-> TEAM_NAME, position |-> TEAM_POSITION,
               description |-> TEAM_DESCRIPTION]>>,
   admission_ways |-> <<ADMISSION_EXAM, ADMISSION_CONTEST>>,
   faq |-> [i \in 1..MaxFaq |-> faq_entry(i)],
   exam_dates |-> <<EXAM_DATE>>,
   created_at |-> "2025-01-01T12:00:00", updated_at |-> "2025-01-01T12:00:00"]

PROGRAM_BARE ==
  [name |-> PROGRAM_AI_PRODUCT, url |-> URL_AI_PRODUCT, institute |-> <<>>,
   duration |-> <<>>, language |-> <<>>, cost |-> <<>>, description |-> <<>>,
   directions |-> <<>>, career_prospects |-> <<>>, partners |-> <<>>,
   team |-> <<>>, admission_ways |-> <<>>, faq |-> <<>>, exam_dates |-> <<>>,
   created_at |-> "2025-01-01T12:00:00", updated_at |-> "2025-01-01T12:00:00"]

\* the programs tables: none, either program, and both in either order
ContextStores ==
  {<<>>, <<PROGRAM_FULL>>, <<PROGRAM_BARE>>, <<PROGRAM_FULL, PROGRAM_BARE>>,
   <<PROGRAM_BARE, PROGRAM_FULL>>}

\* the user_profiles tables: a profile for any of the users
ContextProfiles ==
  {[u \in users |-> ProfileInput(u)] : users \in SUBSET UserIds}

ContextCompletions ==
  {[raises |-> TRUE, choices |-> <<>>],
   [raises |-> FALSE, choices |-> <<[content |-> Some(T_PADDED)]>>]}

ContextEnvs ==
  [profile_read_ok : BOOLEAN, programs_read_ok : BOOLEAN,
   completion : ContextCompletions, now : Timestamps, save_ok : BOOLEAN]

ContextReportEnvs == [programs_read_ok : BOOLEAN, completion : ContextCompletions]

(***************************************************************************)
(* Specification of the Context Serializer: the store holds some programs  *)
(* from the start and the three functions of the serializer are applied.   *)
(***************************************************************************)
InitSerializer ==
  /\ programs \in ContextStores
  /\ user_profiles = <<>>
  /\ conversations = <<>>
  /\ call = [op |-> "init"]

FormatDirections ==
  /\ \E directions \in DirectionLists :
       call' = [op |-> "_format_directions", args |-> <<directions>>,
                result |-> _format_directions(directions)]
  /\ UNCHANGED <<programs, user_profiles, conversations>>

FormatFaq ==
  /\ \E faq \in FaqLists :
       call' = [op |-> "_format_faq", args |-> <<faq>>, result |-> _format_faq(faq)]
  /\ UNCHANGED <<programs, user_profiles, conversations>>

GetProgramsContext ==
  /\ \E ok \in BOOLEAN :
       call' = [op |-> "get_programs_context", args |-> <<>>,
                read |-> get_all_programs(programs, ok),
                result |-> get_programs_context(programs, ok)]
  /\ UNCHANGED <<programs, user_profiles, conversations>>

NextSerializer ==
  \/ FormatDirections
  \/ FormatFaq
  \/ GetProgramsContext

SpecSerializer == InitSerializer /\ [][NextSerializer]_vars

(***************************************************************************)
(* Specification of the Prompt Assembler: the store holds some programs    *)
(* and profiles from the start and the four operations of the assistant    *)
(* are called.                                                             *)
(***************************************************************************)
InitPrompt ==
  /\ programs \in ContextStores
  /\ user_profiles \in ContextProfiles
  /\ conversations = <<>>
  /\ call = [op |-> "init"]

AskQuestion ==
  \E user_id \in UserIds, env \in ContextEnvs :
    Finish("get_response", <<Some(Q_DIFFER), user_id>>,
           get_response(db, Some(Q_DIFFER), user_id, env))

Recommend ==
  \E user_id \in UserIds, env \in ContextReportEnvs :
    Finish("generate_program_recommendation", <<Some(ProfileInput(user_id))>>,
           generate_program_recommendation(db, Some(ProfileInput(user_id)), env))

Compare ==
  \E env \in ContextReportEnvs :
    Finish("compare_programs", <<>>, compare_programs(db, env))

AdmissionGuide ==
  \E env \in ContextReportEnvs :
    Finish("generate_admission_guide", <<>>, generate_admission_guide(db, env))

NextPrompt ==
  \/ AskQuestion
  \/ Recommend
  \/ Compare
  \/ AdmissionGuide

SpecPrompt == InitPrompt /\ [][NextPrompt]_vars

(***************************************************************************)
(* Vocabulary of the properties.                                           *)
(***************************************************************************)
AssistantOps ==
  {"get_response", "generate_program_recommendation", "compare_programs",
   "generate_admission_guide"}

ReportOps == AssistantOps \ {"get_response"}

FallbackOf(op) ==
  CASE op = "get_response" -> RESPONSE_FALLBACK
    [] op = "generate_program_recommendation" -> RECOMMENDATION_FALLBACK
    [] op = "compare_programs" -> COMPARISON_FALLBACK
    [] op = "generate_admission_guide" -> ADMISSION_GUIDE_FALLBACK

\* the positions in events of the calls of the collaborator operation name
Calls(events, name) == {i \in 1..Len(events) : events[i].name = name}

\* a completion with no usable text: the client raised, or there is no content
Unusable(completion) ==
  \/ completion.raises
  \/ completion.choices = <<>>
  \/ IsNone(completion.choices[1].content)

\* some invocation of the model in events failed
ModelFailed(events) ==
  \E i \in Calls(events, "create") : Unusable(events[i].ret)

\* some invocation of the model in events returned a text
ModelAnswered(events) ==
  \E i \in Calls(events, "create") : ~Unusable(events[i].ret)

\* the text the model returned
ModelText(events) ==
  LET i == CHOOSE i \in Calls(events, "create") : ~Unusable(events[i].ret)
  IN  Value(events[i].ret.choices[1].content)

\* trimmed is text without its leading and trailing whitespace
IsTrimOf(trimmed, text) ==
  /\ trimmed # <<>> => trimmed[1] \notin Whitespace /\ trimmed[Len(trimmed)] \notin Whitespace
  /\ \E i \in 0..Len(text) : \E j \in i..Len(text) :
       /\ trimmed = SubSeq(text, i + 1, j)
       /\ \A k \in 1..i : text[k] \in Whitespace
       /\ \A k \in (j + 1)..Len(text) : text[k] \in Whitespace

IsGetResponse == call.op = "get_response"

\* the call was a get_response of a text the classifier finds not relevant
RejectedQuestion ==
  /\ IsGetResponse
  /\ ~IsNone(call.args[1])
  /\ ~is_relevant_question(Value(call.args[1]))

\* the single save_conversation call of events was given user_id, message and
\* the response returned
SavedOnceWith(events, user_id, message, response) ==
  /\ Cardinality(Calls(events, "save_conversation")) = 1
  /\ \A i \in Calls(events, "save_conversation") :
       /\ events[i].args[1] = user_id
       /\ events[i].args[2] = message
       /\ events[i].args[3] = response

\* the call returned the trimmed text of the model and saved it once, as given
AnswerSavedAndReturned ==
  /\ ~call.raised
  /\ IsTrimOf(call.result, ModelText(call.events))
  /\ SavedOnceWith(call.events, call.args[2], Value(call.args[1]), call.result)

\* some save_conversation call in events reported failure
SaveFailed(events) ==
  \E i \in Calls(events, "save_conversation") : ~events[i].ret

\* piece stands in text from position i on
OccursAt(text, piece, i) ==
  /\ i >= 1
  /\ i + Len(piece) - 1 <= Len(text)
  /\ \A k \in 1..Len(piece) : text[i + k - 1] = piece[k]

\* the positions of text where piece stands
Occurrences(text, piece) == {i \in 1..(Len(text) + 1) : OccursAt(text, piece, i)}

\* piece stands somewhere in text
Holds(text, piece) == Occurrences(text, piece) # {}

\* first, second and third stand in text in this order, without overlap
InOrder(text, first, second, third) ==
  \E i \in Occurrences(text, first) :
    \E j \in Occurrences(text, second) :
      /\ j >= i + Len(first)
      /\ \E k \in Occurrences(text, third) : k >= j + Len(second)

\* the call invoked the model
ModelInvoked == call.op \in AssistantOps /\ Calls(call.events, "create") # {}

\* what the call of the collaborator operation name in events returned
Returns(events, name) == events[CHOOSE i \in Calls(events, name) : TRUE].ret

\* the messages given to the model in events
SentMessages(events) == events[CHOOSE i \in Calls(events, "create") : TRUE].args[1]

\* the content of the user message given to the model in events
UserContent(events) == SentMessages(events)[2].content

\* the context of the programs that get_all_programs returned in events
ProgramsContextOf(events) ==
  get_programs_context(Returns(events, "get_all_programs"), TRUE)

\* the context of the profile that get_user_profile returned in events
ProfileContextOf(events) == get_profile_context(Returns(events, "get_user_profile"))

\* every invocation of events carries a system message with the fixed
\* preamble and then one user message
SystemThenUser(events) ==
  \A i \in Calls(events, "create") :
    LET messages == events[i].args[1]
    IN  /\ Len(messages) = 2
        /\ messages[1] = [role |-> "system", content |-> system_prompt]
        /\ messages[2].role = "user"

\* the user message of a get_response holds the programs context, the
\* profile context and the question, in this order
ContextsThenQuestion ==
  InOrder(UserContent(call.events), ProgramsContextOf(call.events),
          ProfileContextOf(call.events), Value(call.args[1]))

\* the first word of the headers of both profile blocks: PROFIL
PROFILE_HEADER ==
  <<"P", "R", "O", "F", "I", "L", "SOFT">>

\* the texts of the list fields of a profile
ProfileElements(user_profile) ==
  {user_profile.interests[i] : i \in 1..Len(user_profile.interests)}
  \cup {user_profile.technical_skills[i] : i \in 1..Len(user_profile.technical_skills)}
  \cup {user_profile.career_goals[i] : i \in 1..Len(user_profile.career_goals)}

\* the call was one of the two generators that take no profile
IsUnprofiledReport == call.op \in {"compare_programs", "generate_admission_guide"}

\* the elements of a sequence
Elements(items) == {items[i] : i \in 1..Len(items)}

\* the values under key of the dicts of a sequence that have the key
ValuesAt(dicts, key) ==
  {dicts[i][key] : i \in {j \in 1..Len(dicts) : key \in DOMAIN dicts[j]}}

\* the texts of the structured fields of a program other than team; of the
\* FAQ, those of the entries that the FAQ bound lets through
ListedContents(program) ==
  ValuesAt(program.directions, "name")
  \cup Elements(program.career_prospects)
  \cup Elements(program.partners)
  \cup Elements(program.admission_ways)
  \cup ValuesAt(first_five(program.faq), "question")
  \cup ValuesAt(first_five(program.faq), "answer")
  \cup Elements(program.exam_dates)

\* the texts of the team of a program
TeamContents(program) ==
  ValuesAt(program.team, "name") \cup ValuesAt(program.team, "position")
  \cup ValuesAt(program.team, "description")

\* get_programs_context was applied and read the one program of the store
ContextOfOneProgram ==
  /\ call.op = "get_programs_context"
  /\ Len(programs) = 1
  /\ call.read = programs

\* the label that opens the block of a program
BLOCK_HEADER ==
  <<"\n", "P", "R", "O", "G", "R", "A", "M", "M", "A", ":", " ">>

\* the record separator that closes the block of a program
RECORD_SEPARATOR ==
  <<"\n", "\n", "-", "-", "-", "\n">>

\* the i-th smallest number of a set of numbers
Nth(numbers, i) ==
  CHOOSE x \in numbers : Cardinality({y \in numbers : y < x}) = i - 1

\* context is made of one labeled block for each program of listed, in the
\* order of listed, each block closed by the record separator
BlocksOf(context, listed) ==
  LET headers == Occurrences(context, BLOCK_HEADER)
      separators == Occurrences(context, RECORD_SEPARATOR)
      N == Len(listed)
  IN  /\ (context = <<>>) <=> (N = 0)
      /\ Cardinality(headers) = N
      /\ Cardinality(separators) = N
      /\ \A i \in 1..N :
           /\ OccursAt(context, BLOCK_HEADER \o listed[i].name \o <<"\n">>,
                       Nth(headers, i))
           /\ Nth(headers, i) < Nth(separators, i)
           /\ i < N => Nth(separators, i) + Len(RECORD_SEPARATOR) = Nth(headers, i + 1)
           /\ i = N => Nth(separators, i) + Len(RECORD_SEPARATOR) = Len(context) + 1

\* the labels of a Q/A pair
Q_LABEL == <<"LAT_Q", ":", " ">>

A_LABEL == <<"LAT_A", ":", " ">>

\* the line of the question of a FAQ entry
QuestionLine(qa) ==
  Q_LABEL \o (IF "question" \in DOMAIN qa THEN qa.question ELSE <<>>) \o <<"\n">>

\* the Q/A pair of a FAQ entry: the line of the question, the line of the
\* answer and an empty line
Pair(qa) ==
  QuestionLine(qa)
  \o A_LABEL \o (IF "answer" \in DOMAIN qa THEN qa.answer ELSE <<>>) \o <<"\n", "\n">>

\* text is the Q/A pairs of the first m entries of faq, in order, and no more
PairsOfFirst(text, faq, m) ==
  LET starts == Occurrences(text, Q_LABEL)
  IN  /\ Cardinality(starts) = m
      /\ \A i \in 1..m :
           /\ OccursAt(text, Pair(faq[i]), Nth(starts, i))
           /\ i < m => Nth(starts, i) + Len(Pair(faq[i])) = Nth(starts, i + 1)
           /\ i = m => Nth(starts, i) + Len(Pair(faq[i])) = Len(text) + 1
      /\ \A i \in (m + 1)..Len(faq) : ~Holds(text, QuestionLine(faq[i]))

\* a direction with the placeholder for its code when it has no code or an
\* empty one
WithCodeOrPlaceholder(direction) ==
  [key \in DOMAIN direction \cup {"code"} |->
     IF key # "code" THEN direction[key]
     ELSE IF "code" \in DOMAIN direction /\ direction.code # <<>>
          THEN direction.code
          ELSE N_A]

\* the header line of the profile block of get_response
USER_PROFILE_HEADER ==
  <<"\n", "P", "R", "O", "F", "I", "L", "SOFT", " ", "P", "O", "L", "SOFT",
    "Z", "O", "V", "A", "T", "E", "L", "YA", ":", "\n">>

\* the labels of the four lines of the profile block, each at the start of a line
INTERESTS_LABEL ==
  <<"\n", "I", "n", "t", "e", "r", "e", "s", "y", ":", " ">>

\* Tekhnicheskie navyki
SKILLS_LABEL ==
  <<"\n", "T", "e", "kh", "n", "i", "ch", "e", "s", "k", "i", "e", " ", "n",
    "a", "v", "y", "k", "i", ":", " ">>

\* Karernye tseli
GOALS_LABEL ==
  <<"\n", "K", "a", "r", "soft", "e", "r", "n", "y", "e", " ", "ts", "e",
    "l", "i", ":", " ">>

\* Predpochitaemaya programma
PREFERRED_LABEL ==
  <<"\n", "P", "r", "e", "d", "p", "o", "ch", "i", "t", "a", "e", "m", "a",
    "ya", " ", "p", "r", "o", "g", "r", "a", "m", "m", "a", ":", " ">>

\* the elements of items with a comma and a space between them
CommaJoined(items) ==
  IF items = <<>> THEN <<>>
  ELSE items[1] \o join(<<>>, [i \in 1..(Len(items) - 1) |-> COMMA_SPACE \o items[i + 1]])

\* text holds the profile block of user_profile: the header and the four
\* labeled lines, a list as its comma-joined elements, nothing for an empty
\* list, and the preferred program or the "not specified" text
HoldsProfileBlock(text, user_profile) ==
  /\ Holds(text, USER_PROFILE_HEADER)
  /\ Holds(text, INTERESTS_LABEL \o CommaJoined(user_profile.interests) \o <<"\n">>)
  /\ Holds(text, SKILLS_LABEL \o CommaJoined(user_profile.technical_skills) \o <<"\n">>)
  /\ Holds(text, GOALS_LABEL \o CommaJoined(user_profile.career_goals) \o <<"\n">>)
  /\ Holds(text, PREFERRED_LABEL
                 \o (IF IsNone(user_profile.preferred_program) THEN NOT_SPECIFIED
                     ELSE Value(user_profile.preferred_program))
                 \o <<"\n">>)

\* the call was a get_response whose get_user_profile returned a profile
ProfileRead ==
  /\ IsGetResponse
  /\ Calls(call.events, "get_user_profile") # {}
  /\ ~IsNone(Returns(call.events, "get_user_profile"))

\* the call was an application of the classifier
Classified == call.op = "is_relevant_question"

\* the lower-cased question holds an exclusion keyword as a substring
HoldsExclusion(question) ==
  \E k \in 1..Len(irrelevant_keywords) : contains(lower(question), irrelevant_keywords[k])

\* the lower-cased question holds an inclusion keyword as a substring
HoldsInclusion(question) ==
  \E k \in 1..Len(relevant_keywords) : contains(lower(question), relevant_keywords[k])

(***************************************************************************)
(* C1.  A question the classifier finds not relevant gets the fixed        *)
(* redirect message, which names both programs; the model is not invoked   *)
(* and no conversation is saved during the call.                           *)
(***************************************************************************)
C1_IrrelevantQuestionRedirected ==
  RejectedQuestion =>
    /\ ~call.raised
    /\ call.result = REDIRECT_MESSAGE
    /\ contains(call.result, PROGRAM_AI)
    /\ contains(call.result, PROGRAM_AI_PRODUCT)
    /\ Calls(call.events, "create") = {}
    /\ Calls(call.events, "save_conversation") = {}
    /\ conversations = call.before

C1_Witness ==
  /\ RejectedQuestion
  /\ call.args[1] = Some(Q_WEATHER)
  /\ call.result = REDIRECT_MESSAGE
  /\ programs # <<>>

(***************************************************************************)
(* C2.  When the model invocation of get_response fails (the client        *)
(* raises, or the response has no usable content), get_response returns    *)
(* the fixed apology text, save_conversation is not called and the         *)
(* conversation log is as it was.                                          *)
(***************************************************************************)
C2_ModelFailureApology ==
  (IsGetResponse /\ ModelFailed(call.events)) =>
    /\ ~call.raised
    /\ call.result = RESPONSE_FALLBACK
    /\ Calls(call.events, "save_conversation") = {}
    /\ conversations = call.before

C2_Witness ==
  /\ IsGetResponse
  /\ \E i \in Calls(call.events, "create") :
       ~call.events[i].ret.raises /\ Unusable(call.events[i].ret)
  /\ call.result = RESPONSE_FALLBACK

(***************************************************************************)
(* C3.  When the question is relevant and the model returns a text T,      *)
(* get_response calls save_conversation exactly once, with the caller's    *)
(* user_id, the question as given and T trimmed, and returns T trimmed.    *)
(***************************************************************************)
\* C3 as claimed: in every such call the store gains exactly one conversation entry
C3_Original ==
  (IsGetResponse /\ ModelAnswered(call.events)) =>
    /\ AnswerSavedAndReturned
    /\ Len(conversations) = Len(call.before) + 1

\* C3 as amended: the call is made once with these values and the trimmed text is
\* returned; the store gains exactly one conversation entry, holding these values,
\* when save_conversation reports success, and none when it reports failure
C3_AnswerSavedOnce ==
  (IsGetResponse /\ ModelAnswered(call.events)) =>
    /\ AnswerSavedAndReturned
    /\ \A i \in Calls(call.events, "save_conversation") :
         IF call.events[i].ret
         THEN conversations =
                Append(call.before,
                       [user_id |-> call.args[2], message |-> Value(call.args[1]),
                        response |-> call.result, timestamp |-> call.events[i].args[4]])
         ELSE conversations = call.before

C3_Witness ==
  /\ IsGetResponse
  /\ ModelAnswered(call.events)
  /\ ModelText(call.events) = T_BLANK
  /\ call.result = <<>>
  /\ Len(conversations) = Len(call.before) + 1

(***************************************************************************)
(* C4.  get_response is total: whatever the message (a text or None), the  *)
(* user id and the failures of the Record Store and of the model client,   *)
(* it returns a text and no exception leaves it.                           *)
(***************************************************************************)
C4_GetResponseTotal ==
  IsGetResponse =>
    /\ ~call.raised
    /\ call.result \in {REDIRECT_MESSAGE, RESPONSE_FALLBACK}
         \cup {strip(t) : t \in ModelTexts}

C4_Witness ==
  /\ IsGetResponse
  /\ IsNone(call.args[1])
  /\ call.result = RESPONSE_FALLBACK

(***************************************************************************)
(* C5.  The three report generators never raise; when the model            *)
(* invocation fails each returns its own fallback text, and the fallback   *)
(* texts of the four operations are pairwise distinct.                     *)
(***************************************************************************)
C5_ReportFallbacks ==
  /\ Cardinality({FallbackOf(op) : op \in AssistantOps}) = 4
  /\ call.op \in ReportOps =>
       /\ ~call.raised
       /\ ModelFailed(call.events) => call.result = FallbackOf(call.op)

C5_Witness ==
  /\ call.op = "compare_programs"
  /\ ModelFailed(call.events)
  /\ call.result = COMPARISON_FALLBACK

(***************************************************************************)
(* C6.  No retries: one call of any of the four operations invokes the     *)
(* model at most once; after a failed invocation nothing more is called    *)
(* and the fallback text is returned.                                      *)
(***************************************************************************)
C6_NoRetry ==
  call.op \in AssistantOps =>
    /\ Cardinality(Calls(call.events, "create")) <= 1
    /\ ModelFailed(call.events) =>
         /\ call.events[Len(call.events)].name = "create"
         /\ call.result = FallbackOf(call.op)

C6_Witness ==
  /\ IsGetResponse
  /\ ModelFailed(call.events)
  /\ Cardinality(Calls(call.events, "create")) = 1

(***************************************************************************)
(* C7.  The four operations leave the programs and the user profiles as    *)
(* they are.  A report generator consults no classifier, saves no          *)
(* conversation and leaves the log as it is; get_response leaves the log   *)
(* as it is or appends one entry.                                          *)
(***************************************************************************)
C7_Frame ==
  [][call'.op \in AssistantOps =>
       /\ programs' = programs
       /\ user_profiles' = user_profiles
       /\ call'.op \in ReportOps =>
            /\ Calls(call'.events, "is_relevant_question") = {}
            /\ Calls(call'.events, "save_conversation") = {}
            /\ conversations' = conversations
       /\ call'.op = "get_response" =>
            \/ conversations' = conversations
            \/ /\ Len(conversations') = Len(conversations) + 1
               /\ SubSeq(conversations', 1, Len(conversations)) = conversations]_vars

C7_Witness ==
  /\ call.op = "compare_programs"
  /\ ModelAnswered(call.events)
  /\ programs # <<>>
  /\ DOMAIN user_profiles # {}
  /\ conversations # <<>>

(***************************************************************************)
(* C8.  A failed conversation-log write is best effort: when the model     *)
(* returned a text and save_conversation reports failure, get_response     *)
(* still returns the trimmed text, not the apology, and raises nothing.    *)
(***************************************************************************)
C8_SaveFailureBestEffort ==
  (IsGetResponse /\ SaveFailed(call.events)) =>
    /\ ~call.raised
    /\ call.result # RESPONSE_FALLBACK
    /\ IsTrimOf(call.result, ModelText(call.events))

C8_Witness ==
  /\ IsGetResponse
  /\ SaveFailed(call.events)
  /\ ModelText(call.events) = T_PADDED
  /\ conversations = call.before

(***************************************************************************)
(* C9.  Exclusion precedence: a question whose lower-cased text holds an   *)
(* exclusion keyword as a substring, also inside a longer word, is not     *)
(* relevant, whatever inclusion keywords it holds and however many tokens  *)
(* it has.                                                                 *)
(***************************************************************************)
C9_ExclusionPrecedence ==
  (Classified /\ HoldsExclusion(call.question)) => call.result = FALSE

C9_Witness ==
  /\ Classified
  /\ call.question = join(<<" ">>, <<W_AI, W_MASTERS, W_HELLO, W_WON>>)
  /\ HoldsInclusion(call.question)
  /\ call.result = FALSE

(***************************************************************************)
(* C10.  A question that holds no exclusion keyword and at least one       *)
(* inclusion keyword is relevant, whatever its number of tokens, one, two  *)
(* and three included.                                                     *)
(***************************************************************************)
C10_InclusionRelevant ==
  (Classified /\ ~HoldsExclusion(call.question) /\ HoldsInclusion(call.question))
    => call.result = TRUE

C10_Witness ==
  /\ Classified
  /\ call.question = W_AI
  /\ split_len(call.question) = 1
  /\ call.result = TRUE

(***************************************************************************)
(* C11.  Length fallback: a question that holds no exclusion and no        *)
(* inclusion keyword is not relevant when it has at most three             *)
(* whitespace-separated tokens, none and exactly three included, and is    *)
(* relevant when it has more than three.                                   *)
(***************************************************************************)
C11_LengthFallback ==
  (Classified /\ ~HoldsExclusion(call.question) /\ ~HoldsInclusion(call.question))
    => (call.result = (split_len(call.question) > 3))

C11_Witness ==
  /\ Classified
  /\ call.question = join(<<" ">>, <<W_HELLO, W_HELLO, W_HELLO>>)
  /\ split_len(call.question) = 3
  /\ call.result = FALSE

\* the upper-case letter of c, or c when it has none
upper_char(c) ==
  IF \E u \in DOMAIN UpperToLower : UpperToLower[u] = c
  THEN CHOOSE u \in DOMAIN UpperToLower : UpperToLower[u] = c
  ELSE c

\* text with every letter in upper case
upper(text) == [i \in 1..Len(text) |-> upper_char(text[i])]

\* the texts that differ from question in letter case only, all letters
\* lowered or all letters raised
CaseVariants(question) == {lower(question), upper(question)}

(***************************************************************************)
(* C12.  The classifier is a function of the case-folded question and has  *)
(* no side effect: an application of it returns the verdict that the       *)
(* question gets with all its letters lowered and with all its letters     *)
(* raised, and leaves the three tables of the store as they were.          *)
(***************************************************************************)
C12_CaseFoldedPure ==
  [][call'.op = "is_relevant_question" =>
       /\ \A variant \in CaseVariants(call.question) :
            is_relevant_question(variant) = call'.result
       /\ call'.question = call.question
       /\ UNCHANGED <<programs, user_profiles, conversations>>]_vars

C12_Witness ==
  /\ Classified
  /\ call.question = W_AI
  /\ lower(call.question) # call.question
  /\ call.result = TRUE

(***************************************************************************)
(* C13.  As stated: every invocation of the model by any of the four       *)
(* operations carries exactly two messages, the system message with the    *)
(* fixed preamble and then one user message; in get_response the user      *)
(* message holds, in this order, the programs context, the profile context *)
(* and the question, and the profile context is not empty if and only if   *)
(* a profile is stored for the user_id.                                    *)
(***************************************************************************)
C13_Original ==
  ModelInvoked =>
    /\ SystemThenUser(call.events)
    /\ IsGetResponse =>
         /\ ContextsThenQuestion
         /\ (ProfileContextOf(call.events) # <<>>) <=> (call.args[2] \in DOMAIN user_profiles)

(***************************************************************************)
(* C13.  Amended: the same, with the profile context not empty if and only *)
(* if get_user_profile returned a profile for the user_id, which it does   *)
(* when one is stored and the read does not fail.                          *)
(***************************************************************************)
C13_TwoMessages ==
  ModelInvoked =>
    /\ SystemThenUser(call.events)
    /\ IsGetResponse =>
         /\ ContextsThenQuestion
         /\ (ProfileContextOf(call.events) # <<>>)
              <=> ~IsNone(Returns(call.events, "get_user_profile"))
         /\ ~IsNone(Returns(call.events, "get_user_profile"))
              => call.args[2] \in DOMAIN user_profiles

C13_Witness ==
  /\ ModelInvoked
  /\ IsGetResponse
  /\ Len(Returns(call.events, "get_all_programs")) = 2
  /\ ~IsNone(Returns(call.events, "get_user_profile"))
  /\ ContextsThenQuestion

(***************************************************************************)
(* C14.  generate_program_recommendation returns the trimmed text of the   *)
(* model when the invocation gives one, and its user message holds every   *)
(* element of the interests, technical_skills and career_goals of the      *)
(* profile it was given; the user message of compare_programs and of       *)
(* generate_admission_guide holds no profile header and no element of any  *)
(* stored profile.                                                         *)
(***************************************************************************)
C14_RecommendationPrompt ==
  ModelInvoked =>
    /\ call.op = "generate_program_recommendation" =>
         /\ ModelAnswered(call.events) =>
              ~call.raised /\ IsTrimOf(call.result, ModelText(call.events))
         /\ \A element \in ProfileElements(Value(call.args[1])) :
              Holds(UserContent(call.events), element)
    /\ IsUnprofiledReport =>
         /\ ~Holds(UserContent(call.events), PROFILE_HEADER)
         /\ \A u \in DOMAIN user_profiles :
              \A element \in ProfileElements(user_profiles[u]) :
                ~Holds(UserContent(call.events), element)

C14_Witness ==
  /\ ModelInvoked
  /\ call.op = "generate_program_recommendation"
  /\ ModelAnswered(call.events)
  /\ ProfileElements(Value(call.args[1])) = {NLP, PYTHON, DATA_SCIENTIST}
  /\ IsTrimOf(call.result, ModelText(call.events))
  /\ call.result # ModelText(call.events)

(***************************************************************************)
(* C15.  For a store holding one program, the output of                    *)
(* get_programs_context holds the name of the program and the content of   *)
(* each of its structured fields that is not empty: directions,            *)
(* career_prospects, partners, team, admission_ways, faq and exam_dates.   *)
(* The FAQ is taken up to its bound of five entries and the read of the    *)
(* table is taken to succeed.                                              *)
(***************************************************************************)
C15_EveryFieldRendered ==
  ContextOfOneProgram =>
    /\ Holds(call.result, programs[1].name)
    /\ \A content \in ListedContents(programs[1]) \cup TeamContents(programs[1]) :
         Holds(call.result, content)

\* what holds instead: every field but the team is in the output, and nothing
\* of the team is
AllButTeamRendered ==
  ContextOfOneProgram =>
    /\ Holds(call.result, programs[1].name)
    /\ \A content \in ListedContents(programs[1]) : Holds(call.result, content)
    /\ \A content \in TeamContents(programs[1]) : ~Holds(call.result, content)

(***************************************************************************)
(* C16.  As stated: get_programs_context returns the empty text if and     *)
(* only if the store holds no program, and for a store holding N programs  *)
(* the text is N labeled blocks, one for each stored program in order,     *)
(* each closed by the record separator.                                    *)
(***************************************************************************)
C16_Original ==
  call.op = "get_programs_context" => BlocksOf(call.result, programs)

(***************************************************************************)
(* C16.  Amended: get_programs_context returns the empty text if and only  *)
(* if get_all_programs returned no program, which it does when the store   *)
(* holds none and when the read fails; for N programs returned the text is *)
(* N labeled blocks, one for each in the order returned, each closed by    *)
(* the record separator.                                                   *)
(***************************************************************************)
C16_BlockPerProgramRead ==
  call.op = "get_programs_context" =>
    /\ BlocksOf(call.result, call.read)
    /\ call.read \in {programs, <<>>}

C16_Witness ==
  /\ call.op = "get_programs_context"
  /\ call.read = <<PROGRAM_BARE, PROGRAM_FULL>>
  /\ Cardinality(Occurrences(call.result, RECORD_SEPARATOR)) = 2

(***************************************************************************)
(* C17.  Sentinels: _format_directions returns its fixed "not found" text  *)
(* exactly when the list of directions is empty and _format_faq returns    *)
(* its own exactly when the FAQ list is empty; for a list that is not      *)
(* empty neither returns its sentinel nor the empty text.                  *)
(***************************************************************************)
C17_Sentinels ==
  /\ call.op = "_format_directions" =>
       /\ (call.result = NOT_FOUND_DIRECTIONS) <=> (call.args[1] = <<>>)
       /\ call.result # <<>>
  /\ call.op = "_format_faq" =>
       /\ (call.result = NOT_FOUND_FAQ) <=> (call.args[1] = <<>>)
       /\ call.result # <<>>

C17_Witness ==
  /\ call.op = "_format_directions"
  /\ call.args[1] = <<>>
  /\ call.result = NOT_FOUND_DIRECTIONS

(***************************************************************************)
(* C18.  FAQ bound: for a FAQ list of n entries that is not empty, the     *)
(* text of _format_faq is exactly min(n, 5) Q/A pairs, those of the first  *)
(* min(n, 5) entries in stored order; the question of an entry from the    *)
(* sixth on is not in it.                                                  *)
(***************************************************************************)
C18_FaqBound ==
  (call.op = "_format_faq" /\ call.args[1] # <<>>) =>
    LET n == Len(call.args[1])
    IN  PairsOfFirst(call.result, call.args[1], IF n < 5 THEN n ELSE 5)

C18_Witness ==
  /\ call.op = "_format_faq"
  /\ Len(call.args[1]) = 6
  /\ Cardinality(Occurrences(call.result, Q_LABEL)) = 5
  /\ ~Holds(call.result, QuestionLine(call.args[1][6]))

(***************************************************************************)
(* C19.  For every direction, the text of _format_directions holds the     *)
(* name, then in parentheses the code, or the placeholder when the code is *)
(* empty, then the budget, target and contract counts; a direction stored  *)
(* with an empty code, as the scraper leaves it, is rendered with the      *)
(* placeholder and not with empty parentheses.                             *)
(***************************************************************************)
C19_CodeOrPlaceholder ==
  call.op = "_format_directions" =>
    \A i \in 1..Len(call.args[1]) :
      Holds(call.result, format_direction(WithCodeOrPlaceholder(call.args[1][i])))

(***************************************************************************)
(* C20.  When get_response reads a stored profile, it goes on to invoke    *)
(* the model whatever lists of the profile are empty, it returns the       *)
(* trimmed text of the model when there is one, and the user message holds *)
(* the profile block with every label, an empty join for each empty list   *)
(* and the "not specified" text for a preferred_program that is null.      *)
(***************************************************************************)
C20_EmptyListsKeepProfileBlock ==
  ProfileRead =>
    /\ ModelInvoked
    /\ ModelAnswered(call.events) =>
         ~call.raised /\ IsTrimOf(call.result, ModelText(call.events))
    /\ HoldsProfileBlock(UserContent(call.events),
                         Value(Returns(call.events, "get_user_profile")))

C20_Witness ==
  /\ ProfileRead
  /\ LET user_profile == Value(Returns(call.events, "get_user_profile"))
     IN  /\ user_profile.interests = <<>>
         /\ user_profile.technical_skills = <<>>
         /\ user_profile.career_goals = <<>>
         /\ IsNone(user_profile.preferred_program)
  /\ ModelAnswered(call.events)
  /\ Holds(UserContent(call.events), PREFERRED_LABEL \o NOT_SPECIFIED)

(***************************************************************************)
(* C21.  When the profile given to the model has an empty interests,       *)
(* technical_skills or career_goals list, the user message of the prompt   *)
(* carries no label for that list: an empty field is left out of the       *)
(* serialized profile, in get_response and in the recommendation alike.    *)
(***************************************************************************)
C21_EmptyFieldsOmitted ==
  LET sent == IF ProfileRead
              THEN {Value(Returns(call.events, "get_user_profile"))}
              ELSE IF call.op = "generate_program_recommendation" /\ ModelInvoked
                   THEN {Value(call.args[1])}
                   ELSE {}
  IN  \A user_profile \in sent :
        LET text == UserContent(call.events)
        IN  /\ user_profile.interests = <<>> => ~Holds(text, INTERESTS_LABEL)
            /\ user_profile.technical_skills = <<>> => ~Holds(text, SKILLS_LABEL)
            /\ user_profile.career_goals = <<>> => ~Holds(text, GOALS_LABEL)

(***************************************************************************)
(* Record Store, row level.  A JSON column holds the text json.dumps makes *)
(* of the field (ensure_ascii=False: letters stand as themselves) and a    *)
(* read gives back what json.loads makes of that text.                     *)
(***************************************************************************)
\* the keys of the stored dicts, as the text json.dumps writes for each
KeyTexts ==
  [name |-> <<"lat_n", "lat_a", "lat_m", "lat_e">>,
   code |-> <<"lat_c", "lat_o", "lat_d", "lat_e">>,
   budget_places |-> <<"lat_b", "lat_u", "lat_d", "lat_g", "lat_e", "lat_t", "_",
                       "lat_p", "lat_l", "lat_a", "lat_c", "lat_e", "lat_s">>,
   target_places |-> <<"lat_t", "lat_a", "lat_r", "lat_g", "lat_e", "lat_t", "_",
                       "lat_p", "lat_l", "lat_a", "lat_c", "lat_e", "lat_s">>,
   contract_places |-> <<"lat_c", "lat_o", "lat_n", "lat_t", "lat_r", "lat_a",
                         "lat_c", "lat_t", "_", "lat_p", "lat_l", "lat_a", "lat_c",
                         "lat_e", "lat_s">>,
   position |-> <<"lat_p", "lat_o", "lat_s", "lat_i", "lat_t", "lat_i", "lat_o",
                  "lat_n">>,
   description |-> <<"lat_d", "lat_e", "lat_s", "lat_c", "lat_r", "lat_i", "lat_p",
                     "lat_t", "lat_i", "lat_o", "lat_n">>,
   question |-> <<"lat_q", "lat_u", "lat_e", "lat_s", "lat_t", "lat_i", "lat_o",
                  "lat_n">>,
   answer |-> <<"lat_a", "lat_n", "lat_s", "lat_w", "lat_e", "lat_r">>]

\* json.dumps(value, ensure_ascii=False) of a text ("str"), a list of texts
\* ("list[str]"), a dict ("dict") or a list of dicts ("list[dict]"); in a dict
\* the three counts of places are numbers and every other value is a text
json_dumps(type, value) ==
  LET NumberKeys == {"budget_places", "target_places", "contract_places"}
      escape(c) == IF c = "\"" THEN <<"\\", "\"">>
                   ELSE IF c = "\\" THEN <<"\\", "\\">>
                   ELSE IF c = "\n" THEN <<"\\", "lat_n">>
                   ELSE IF c = "\t" THEN <<"\\", "lat_t">>
                   ELSE <<c>>
      str(s) == <<"\"">> \o join(<<>>, [i \in 1..Len(s) |-> escape(s[i])]) \o <<"\"">>
      keys(d) == SelectSeq(<<"name", "code", "budget_places", "target_places",
                             "contract_places", "position", "description",
                             "question", "answer">>,
                           LAMBDA k : k \in DOMAIN d)
      member(d, k) == str(KeyTexts[k]) \o <<":", " ">>
                      \o (IF k \in NumberKeys THEN str_int(d[k]) ELSE str(d[k]))
      dict(d) == <<"{">>
                 \o join(COMMA_SPACE, [i \in 1..Len(keys(d)) |-> member(d, keys(d)[i])])
                 \o <<"}">>
      list(items) == <<"[">> \o join(COMMA_SPACE, items) \o <<"]">>
  IN  CASE type = "str" -> str(value)
        [] type = "list[str]" -> list([i \in 1..Len(value) |-> str(value[i])])
        [] type = "dict" -> dict(value)
        [] type = "list[dict]" -> list([i \in 1..Len(value) |-> dict(value[i])])

\* json.loads(text): the value a JSON text stands for, read from its first
\* character on; an object becomes a dict, an array a list
json_loads(text) ==
  LET skip(i) == IF i <= Len(text) /\ text[i] = " " THEN i + 1 ELSE i
      unescape(c) == IF c = "lat_n" THEN "\n" ELSE IF c = "lat_t" THEN "\t" ELSE c
      digit(c) == (CHOOSE d \in 1..10 : Digits[d] = c) - 1
      is_digit(i) == i <= Len(text) /\ \E d \in 1..10 : Digits[d] = text[i]
      RECURSIVE string(_, _), number(_, _), value(_), elements(_, _), members(_, _)
      string(i, acc) ==
        IF text[i] = "\"" THEN [value |-> acc, next |-> i + 1]
        ELSE IF text[i] = "\\" THEN string(i + 2, Append(acc, unescape(text[i + 1])))
        ELSE string(i + 1, Append(acc, text[i]))
      number(i, acc) ==
        IF is_digit(i) THEN number(i + 1, 10 * acc + digit(text[i]))
        ELSE [value |-> acc, next |-> i]
      value(i) ==
        IF text[i] = "\"" THEN string(i + 1, <<>>)
        ELSE IF text[i] = "[" THEN
          IF text[i + 1] = "]" THEN [value |-> <<>>, next |-> i + 2]
          ELSE elements(i + 1, <<>>)
        ELSE IF text[i] = "{" THEN
          IF text[i + 1] = "}" THEN [value |-> <<>>, next |-> i + 2]
          ELSE members(i + 1, <<>>)
        ELSE number(i, 0)
      elements(i, acc) ==
        LET v == value(skip(i))
        IN  IF text[v.next] = ","
            THEN elements(v.next + 1, Append(acc, v.value))
            ELSE [value |-> Append(acc, v.value), next |-> v.next + 1]
      members(i, acc) ==
        LET k == string(skip(i) + 1, <<>>)
            v == value(skip(k.next + 1))
            key == CHOOSE name \in DOMAIN KeyTexts : KeyTexts[name] = k.value
            all == Append(acc, <<key, v.value>>)
        IN  IF text[v.next] = ","
            THEN members(v.next + 1, all)
            ELSE [value |-> [name \in {all[j][1] : j \in 1..Len(all)} |->
                               all[CHOOSE j \in 1..Len(all) :
                                     /\ all[j][1] = name
                                     /\ \A l \in (j + 1)..Len(all) : all[l][1] # name][2]],
                  next |-> v.next + 1]
  IN  value(1).value

\* the parameters of the INSERT of save_program: the columns of one row
program_row(program) ==
  [name |-> program.name, url |-> program.url, institute |-> program.institute,
   duration |-> program.duration, language |-> program.language,
   cost |-> program.cost, description |-> program.description,
   directions |-> json_dumps("list[dict]", program.directions),
   career_prospects |-> json_dumps("list[str]", program.career_prospects),
   partners |-> json_dumps("list[str]", program.partners),
   team |-> json_dumps("list[dict]", program.team),
   admission_ways |-> json_dumps("list[str]", program.admission_ways),
   faq |-> json_dumps("list[dict]", program.faq),
   exam_dates |-> json_dumps("list[str]", program.exam_dates),
   created_at |-> program.created_at, updated_at |-> program.updated_at]

\* the Program that get_program and get_all_programs build from a row
row_program(row) ==
  [name |-> row.name, url |-> row.url, institute |-> row.institute,
   duration |-> row.duration, language |-> row.language, cost |-> row.cost,
   description |-> row.description,
   directions |-> json_loads(row.directions),
   career_prospects |-> json_loads(row.career_prospects),
   partners |-> json_loads(row.partners),
   team |-> json_loads(row.team),
   admission_ways |-> json_loads(row.admission_ways),
   faq |-> json_loads(row.faq),
   exam_dates |-> json_loads(row.exam_dates),
   created_at |-> row.created_at, updated_at |-> row.updated_at]

\* SELECT * FROM programs WHERE name = ?: the Program of the first such row,
\* None when there is none or the statement raises
get_program(rows, name, ok) ==
  LET found == SelectSeq(rows, LAMBDA row : row.name = name)
  IN  IF ok /\ found # <<>> THEN Some(row_program(found[1])) ELSE <<>>

\* the parameters of the INSERT of save_user_profile
user_profile_row(profile) ==
  [user_id |-> profile.user_id, username |-> profile.username,
   background |-> json_dumps("dict", profile.background),
   interests |-> json_dumps("list[str]", profile.interests),
   technical_skills |-> json_dumps("list[str]", profile.technical_skills),
   career_goals |-> json_dumps("list[str]", profile.career_goals),
   preferred_program |-> profile.preferred_program,
   created_at |-> profile.created_at, updated_at |-> profile.updated_at]

\* the UserProfile that get_user_profile builds from a row: an empty column
\* reads as the empty dict or list
row_user_profile(row) ==
  [user_id |-> row.user_id, username |-> row.username,
   background |-> IF row.background # <<>> THEN json_loads(row.background) ELSE <<>>,
   interests |-> IF row.interests # <<>> THEN json_loads(row.interests) ELSE <<>>,
   technical_skills |-> IF row.technical_skills # <<>>
                        THEN json_loads(row.technical_skills) ELSE <<>>,
   career_goals |-> IF row.career_goals # <<>> THEN json_loads(row.career_goals) ELSE <<>>,
   preferred_program |-> row.preferred_program,
   created_at |-> row.created_at, updated_at |-> row.updated_at]

(***************************************************************************)
(* Specification of the Record Store: the three writes and the three reads *)
(* of Database in any order, starting from the empty database.  Here the   *)
(* tables hold the rows as sqlite keeps them; the specifications of the    *)
(* pipeline keep each row as the record that reading it gives.  call       *)
(* records the last operation and, as history, the record most recently    *)
(* saved with success under each key (latest) and, for a save, whether the *)
(* table held a row of that key before it (existed).                       *)
(***************************************************************************)
MaxConversations == 2

\* a program with nested directions, team and faq (a quote and a backslash in
\* the faq, a line break in the description of the team member), a second
\* version of it under the same name in which the other fields differ, and a
\* program of another name with every list empty
StorePrograms ==
  {[PROGRAM_BARE EXCEPT !.name = PROGRAM_AI, !.description = T_PADDED,
                        !.directions = <<[name |-> NLP, code |-> <<>>,
                                          budget_places |-> 51, target_places |-> 0,
                                          contract_places |-> 4]>>,
                        !.career_prospects = <<DATA_SCIENTIST, PYTHON>>,
                        !.team = <<[name |-> PYTHON, position |-> Q_YES,
                                    description |-> T_PADDED]>>,
                        !.faq = <<[question |-> <<"\"", "?", "\"">>,
                                   answer |-> <<"\\", "lat_n">>]>>],
   [PROGRAM_BARE EXCEPT !.name = PROGRAM_AI, !.url = URL_AI, !.cost = <<"0">>,
                        !.directions = <<[name |-> PYTHON, code |-> <<"0", "1">>]>>,
                        !.partners = <<NLP>>,
                        !.created_at = "2025-02-02T12:00:00",
                        !.updated_at = "2025-02-02T12:00:00"],
   PROGRAM_BARE}

\* the profiles of the two users, and a second version of the profile of user 1
\* in which every other field differs
StoreProfiles ==
  {ProfileInput(1), ProfileInput(2),
   [ProfileInput(2) EXCEPT !.user_id = 1, !.username = "other",
                           !.background = [description |-> T_PADDED],
                           !.interests = <<PYTHON, NLP>>,
                           !.created_at = "2025-02-02T12:00:00",
                           !.updated_at = "2025-02-02T12:00:00"]}

InitStore ==
  /\ programs = <<>>
  /\ user_profiles = <<>>
  /\ conversations = <<>>
  /\ call = [op |-> "init", latest |-> [programs |-> <<>>, user_profiles |-> <<>>]]

StoreSaveProgram ==
  \E program \in StorePrograms, ok \in BOOLEAN :
    LET out == save_program(programs, program_row(program), ok)
        saved == call.latest.programs
    IN  /\ programs' = out.rows
        /\ call' = [op |-> "save_program", args |-> <<program>>, result |-> out.ret,
                    existed |-> \E i \in 1..Len(programs) : programs[i].name = program.name,
                    latest |-> IF out.ret
                               THEN [call.latest EXCEPT !.programs =
                                       [n \in DOMAIN saved \cup {program.name} |->
                                          IF n = program.name THEN program ELSE saved[n]]]
                               ELSE call.latest]
        /\ UNCHANGED <<user_profiles, conversations>>

\* the names asked for are the two names saved and one never saved
StoreGetProgram ==
  \E name \in {PROGRAM_AI, PROGRAM_AI_PRODUCT, URL_AI}, ok \in BOOLEAN :
    /\ call' = [op |-> "get_program", args |-> <<name>>,
                result |-> get_program(programs, name, ok), failed |-> ~ok,
                latest |-> call.latest]
    /\ UNCHANGED <<programs, user_profiles, conversations>>

StoreGetAllPrograms ==
  \E ok \in BOOLEAN :
    LET rows == get_all_programs(programs, ok)
    IN  /\ call' = [op |-> "get_all_programs", args |-> <<>>,
                    result |-> [i \in 1..Len(rows) |-> row_program(rows[i])],
                    failed |-> ~ok, latest |-> call.latest]
        /\ UNCHANGED <<programs, user_profiles, conversations>>

StoreSaveUserProfile ==
  \E profile \in StoreProfiles, ok \in BOOLEAN :
    LET out == save_user_profile(user_profiles, user_profile_row(profile), ok)
        saved == call.latest.user_profiles
    IN  /\ user_profiles' = out.table
        /\ call' = [op |-> "save_user_profile", args |-> <<profile>>, result |-> out.ret,
                    existed |-> profile.user_id \in DOMAIN user_profiles,
                    latest |-> IF out.ret
                               THEN [call.latest EXCEPT !.user_profiles =
                                       [u \in DOMAIN saved \cup {profile.user_id} |->
                                          IF u = profile.user_id THEN profile ELSE saved[u]]]
                               ELSE call.latest]
        /\ UNCHANGED <<programs, conversations>>

StoreGetUserProfile ==
  \E user_id \in UserIds, ok \in BOOLEAN :
    LET row == get_user_profile(user_profiles, user_id, ok)
    IN  /\ call' = [op |-> "get_user_profile", args |-> <<user_id>>,
                    result |-> IF IsNone(row) THEN <<>> ELSE Some(row_user_profile(Value(row))),
                    failed |-> ~ok, latest |-> call.latest]
        /\ UNCHANGED <<programs, user_profiles, conversations>>

StoreSaveConversation ==
  \E user_id \in UserIds, ok \in BOOLEAN :
    LET out == save_conversation(conversations, user_id, Q_YES, T_PADDED,
                                 "2025-01-01T12:00:00", ok)
    IN  /\ Len(out.rows) <= MaxConversations
        /\ conversations' = out.rows
        /\ call' = [op |-> "save_conversation",
                    args |-> <<user_id, Q_YES, T_PADDED, "2025-01-01T12:00:00">>,
                    result |-> out.ret, latest |-> call.latest]
        /\ UNCHANGED <<programs, user_profiles>>

NextStore ==
  \/ StoreSaveProgram
  \/ StoreGetProgram
  \/ StoreGetAllPrograms
  \/ StoreSaveUserProfile
  \/ StoreGetUserProfile
  \/ StoreSaveConversation

SpecStore == InitStore /\ [][NextStore]_vars

(***************************************************************************)
(* Specification of concurrent callers of the Record Store.  Each caller   *)
(* makes one call at a time; a save opens its own connection, runs its one *)
(* INSERT OR REPLACE in a transaction of that connection and commits.      *)
(* sqlite lets one connection write at a time: the INSERT of a second      *)
(* connection waits for the first to commit and raises "database is        *)
(* locked" when the wait times out, and a read sees committed rows only.   *)
(* call records the last step and, for each caller, the save it is in      *)
(* (pending): the table, the record, and whether the INSERT was executed.  *)
(***************************************************************************)
Callers == {1, 2}

\* the saves made: the two versions of one program, and the profiles
ConcurrentSaves ==
  {[table |-> "programs", record |-> program] :
     program \in {p \in StorePrograms : p.name = PROGRAM_AI}}
  \cup {[table |-> "user_profiles", record |-> profile] : profile \in StoreProfiles}

InitConcurrent ==
  /\ programs = <<>>
  /\ user_profiles = <<>>
  /\ conversations = <<>>
  /\ call = [op |-> "init", pending |-> [c \in Callers |-> <<>>]]

\* the caller is in a save whose INSERT was executed and is not yet committed
Writing(c) ==
  IF IsNone(call.pending[c]) THEN FALSE ELSE Value(call.pending[c]).executed

\* the caller is in a save whose INSERT was not yet executed
Connected(c) ==
  IF IsNone(call.pending[c]) THEN FALSE ELSE ~Value(call.pending[c]).executed

\* a caller enters save_program or save_user_profile and connects
Connect(c) ==
  /\ IsNone(call.pending[c])
  /\ \E save \in ConcurrentSaves :
       call' = [op |-> "connect", caller |-> c,
                pending |-> [call.pending EXCEPT ![c] =
                               Some([table |-> save.table, record |-> save.record,
                                     executed |-> FALSE])]]
  /\ UNCHANGED <<programs, user_profiles, conversations>>

\* conn.execute(INSERT OR REPLACE ...) while no other connection is writing
Execute(c) ==
  /\ Connected(c)
  /\ \A other \in Callers \ {c} : ~Writing(other)
  /\ call' = [op |-> "execute", caller |-> c,
              pending |-> [call.pending EXCEPT ![c] =
                             Some([Value(call.pending[c]) EXCEPT !.executed = TRUE])]]
  /\ UNCHANGED <<programs, user_profiles, conversations>>

\* conn.commit(): the row is in the table, or the commit raises, the
\* transaction is rolled back and the save returns False
Commit(c) ==
  /\ Writing(c)
  /\ \E ok \in BOOLEAN :
       LET save == Value(call.pending[c])
       IN  /\ IF save.table = "programs"
              THEN /\ programs' = save_program(programs, program_row(save.record), ok).rows
                   /\ UNCHANGED user_profiles
              ELSE /\ user_profiles' =
                        save_user_profile(user_profiles, user_profile_row(save.record),
                                          ok).table
                   /\ UNCHANGED programs
           /\ call' = [op |-> IF save.table = "programs" THEN "save_program"
                              ELSE "save_user_profile",
                       caller |-> c, args |-> <<save.record>>, result |-> ok,
                       pending |-> [call.pending EXCEPT ![c] = <<>>]]
  /\ UNCHANGED conversations

\* conn.execute raises "database is locked" while another connection is
\* writing: the save returns False
Locked(c) ==
  /\ Connected(c)
  /\ \E other \in Callers \ {c} : Writing(other)
  /\ call' = [op |-> IF Value(call.pending[c]).table = "programs" THEN "save_program"
                     ELSE "save_user_profile",
              caller |-> c, args |-> <<Value(call.pending[c]).record>>, result |-> FALSE,
              pending |-> [call.pending EXCEPT ![c] = <<>>]]
  /\ UNCHANGED <<programs, user_profiles, conversations>>

\* a caller that is in no save reads a program or a profile
Read(c) ==
  /\ IsNone(call.pending[c])
  /\ \E ok \in BOOLEAN :
       \/ call' = [op |-> "get_program", caller |-> c, args |-> <<PROGRAM_AI>>,
                   result |-> get_program(programs, PROGRAM_AI, ok),
                   pending |-> call.pending]
       \/ \E user_id \in UserIds :
            LET row == get_user_profile(user_profiles, user_id, ok)
            IN  call' = [op |-> "get_user_profile", caller |-> c, args |-> <<user_id>>,
                         result |-> IF IsNone(row) THEN <<>>
                                    ELSE Some(row_user_profile(Value(row))),
                         pending |-> call.pending]
  /\ UNCHANGED <<programs, user_profiles, conversations>>

NextConcurrent ==
  \E c \in Callers :
    \/ Connect(c)
    \/ Execute(c)
    \/ Commit(c)
    \/ Locked(c)
    \/ Read(c)

SpecConcurrent == InitConcurrent /\ [][NextConcurrent]_vars

(***************************************************************************)
(* Specification of the chat layer for two questions of one user.  The     *)
(* dispatcher is started with dp.start_polling(bot): it makes one task for *)
(* each message, in the order of delivery, and the tasks take turns at     *)
(* their await points.  A question goes to process_question while the user *)
(* is in the state waiting_for_question and to handle_other_messages       *)
(* otherwise.  The handler awaits send_chat_action, then runs get_response *)
(* (which has no await point of its own), then awaits message.answer.      *)
(* call records the last step, the place of each task (pc), the handler    *)
(* that runs it, its question (message.text), the reply it got, and the    *)
(* state of the user (state).                                              *)
(***************************************************************************)
InitDispatch ==
  /\ programs = <<>>
  /\ user_profiles = <<>>
  /\ conversations = <<>>
  /\ call = [op |-> "init", state |-> "waiting_for_question",
             pc |-> [t \in 1..2 |-> "undelivered"],
             handler |-> [t \in 1..2 |-> "none"],
             question |-> [t \in 1..2 |-> <<>>],
             reply |-> [t \in 1..2 |-> <<>>]]

\* the message is delivered: its task runs the handler up to
\* await message.bot.send_chat_action(...)
Deliver(t) ==
  /\ call.pc[t] = "undelivered"
  /\ \A earlier \in 1..(t - 1) : call.pc[earlier] # "undelivered"
  /\ \E text \in {Q_WEATHER, Q_DIFFER, Q_YES} :
     call' = [call EXCEPT !.op = "deliver",
                          !.pc[t] = "typing",
                          !.question[t] = Some(text),
                          !.handler[t] = IF call.state = "waiting_for_question"
                                         THEN "process_question"
                                         ELSE "handle_other_messages"]
  /\ UNCHANGED <<programs, user_profiles, conversations>>

\* send_chat_action returns: the task runs get_response and goes on to
\* await message.answer(ai_response, ...)
Respond(t) ==
  /\ call.pc[t] = "typing"
  /\ \E env \in ContextEnvs :
       LET out == get_response(db, call.question[t], 1, env)
       IN  /\ conversations' = out.conversations
           /\ call' = [call EXCEPT !.op = "get_response",
                                   !.pc[t] = "answering",
                                   !.reply[t] = Some(out.result)]
  /\ UNCHANGED <<programs, user_profiles>>

\* message.answer returns: process_question clears the state of the user
Answered(t) ==
  /\ call.pc[t] = "answering"
  /\ call' = [call EXCEPT !.op = "answer",
                          !.pc[t] = "done",
                          !.state = IF call.handler[t] = "process_question"
                                    THEN "none" ELSE call.state]
  /\ UNCHANGED <<programs, user_profiles, conversations>>

NextDispatch ==
  \E t \in 1..2 :
    \/ Deliver(t)
    \/ Respond(t)
    \/ Answered(t)

SpecDispatch == InitDispatch /\ [][NextDispatch]_vars

(***************************************************************************)
(* C26.  When two questions of one user are delivered one after the other, *)
(* the get_response of the second begins only after the get_response of    *)
(* the first has completed, its conversation entry written and its reply   *)
(* produced, under every interleaving of the two handler tasks.            *)
(***************************************************************************)
C26_PerUserOrder ==
  call.pc[2] \in {"answering", "done"} => call.pc[1] \in {"answering", "done"}


(***************************************************************************)
(* Handlers of the bot.  The handlers keep, per user, the state of the     *)
(* conversation and the answers collected so far (aiogram's FSMContext     *)
(* over MemoryStorage); a message is routed to the handler registered for  *)
(* the user's state.  The texts the handlers send:                         *)
(***************************************************************************)
\* process_goals, after a save that succeeded: "Profil' uspeshno sokhranen! ..."
PROFILE_SAVED ==
  <<"check_mark", " ", "*", "*", "P", "r", "o", "f", "i", "l", "soft", " ",
  "u", "s", "p", "e", "sh", "n", "o", " ", "s", "o", "kh", "r", "a", "n",
  "e", "n", "!", "*", "*", "\n", "\n", "T", "e", "p", "e", "r", "soft", " ",
  "v", "y", " ", "m", "o", "zh", "e", "t", "e", " ", "p", "o", "l", "u",
  "ch", "i", "t", "soft", " ", "p", "e", "r", "s", "o", "n", "a", "l",
  "soft", "n", "y", "e", " ", "r", "e", "k", "o", "m", "e", "n", "d", "a",
  "ts", "i", "i", " ", "p", "o", " ", "p", "r", "o", "g", "r", "a", "m", "m",
  "a", "m", " ", "i", " ", "p", "l", "a", "n", "i", "r", "o", "v", "a", "n",
  "i", "yu", " ", "o", "b", "u", "ch", "e", "n", "i", "ya", ".">>

\* process_goals, after a save that failed: "Oshibka pri sokhranenii profilya. ..."
PROFILE_SAVE_FAILED ==
  <<"cross_mark", " ", "O", "sh", "i", "b", "k", "a", " ", "p", "r", "i", " ",
  "s", "o", "kh", "r", "a", "n", "e", "n", "i", "i", " ", "p", "r", "o", "f",
  "i", "l", "ya", ".", " ", "P", "o", "p", "r", "o", "b", "u", "j", "t", "e",
  " ", "e", "shch", "e", " ", "r", "a", "z", ".">>

\* get_recommendation without a profile: "... neobkhodimo zapolnit' profil'. ..."
PROFILE_NEEDED ==
  <<"target", " ", "*", "*", "P", "e", "r", "s", "o", "n", "a", "l", "soft",
  "n", "y", "e", " ", "r", "e", "k", "o", "m", "e", "n", "d", "a", "ts", "i",
  "i", "*", "*", "\n", "\n", "D", "l", "ya", " ", "p", "o", "l", "u", "ch",
  "e", "n", "i", "ya", " ", "p", "e", "r", "s", "o", "n", "a", "l", "soft",
  "n", "y", "kh", " ", "r", "e", "k", "o", "m", "e", "n", "d", "a", "ts",
  "i", "j", " ", "n", "e", "o", "b", "kh", "o", "d", "i", "m", "o", " ", "z",
  "a", "p", "o", "l", "n", "i", "t", "soft", " ", "p", "r", "o", "f", "i",
  "l", "soft", ".", "\n", "\n", "P", "r", "o", "f", "i", "l", "soft", " ",
  "p", "o", "m", "o", "zh", "e", "t", " ", "m", "n", "e", ":", "\n",
  "bullet", " ", "P", "o", "n", "ya", "t", "soft", " ", "v", "a", "sh", " ",
  "t", "e", "kh", "n", "i", "ch", "e", "s", "k", "i", "j", " ", "b", "eh",
  "k", "g", "r", "a", "u", "n", "d", "\n", "bullet", " ", "U", "z", "n", "a",
  "t", "soft", " ", "v", "a", "sh", "i", " ", "k", "a", "r", "soft", "e",
  "r", "n", "y", "e", " ", "ts", "e", "l", "i", "\n", "bullet", " ", "P",
  "r", "e", "d", "l", "o", "zh", "i", "t", "soft", " ", "p", "o", "d", "kh",
  "o", "d", "ya", "shch", "u", "yu", " ", "p", "r", "o", "g", "r", "a", "m",
  "m", "u", "\n", "bullet", " ", "R", "e", "k", "o", "m", "e", "n", "d", "o",
  "v", "a", "t", "soft", " ", "v", "y", "b", "o", "r", "n", "y", "e", " ",
  "d", "i", "s", "ts", "i", "p", "l", "i", "n", "y">>

\* get_recommendation, before the assistant is called: "Generiruyu ..."
GENERATING ==
  <<"arrows", " ", "G", "e", "n", "e", "r", "i", "r", "u", "yu", " ", "p", "e",
  "r", "s", "o", "n", "a", "l", "soft", "n", "u", "yu", " ", "r", "e", "k",
  "o", "m", "e", "n", "d", "a", "ts", "i", "yu", ".", ".", ".">>

\* get_recommendation: the heading put before the recommendation
RECOMMENDATION_HEADER ==
  <<"target", " ", "*", "*", "P", "e", "r", "s", "o", "n", "a", "l", "soft",
  "n", "a", "ya", " ", "r", "e", "k", "o", "m", "e", "n", "d", "a", "ts",
  "i", "ya", "*", "*", "\n", "\n">>

\* "NLP, Python,": an answer listing two items, with a trailing comma
M_LIST == NLP \o <<",", " ">> \o PYTHON \o <<",">>

\* text.split(sep): the pieces between the separators, empty pieces included
RECURSIVE split(_, _)
split(text, sep) ==
  LET at == {i \in 1..Len(text) : text[i] = sep}
  IN  IF at = {} THEN <<text>>
      ELSE LET first == CHOOSE i \in at : \A j \in at : i <= j
           IN  <<SubSeq(text, 1, first - 1)>>
                 \o split(SubSeq(text, first + 1, Len(text)), sep)

\* [item.strip() for item in message.text.split(",")]
stripped_items(text) ==
  LET pieces == split(text, ",")
  IN  [i \in 1..Len(pieces) |-> strip(pieces[i])]

\* [goal.strip() for goal in message.text.split(",") if goal.strip()]
RECURSIVE non_empty(_)
non_empty(items) ==
  IF items = <<>> THEN <<>>
  ELSE (IF Head(items) = <<>> THEN <<>> ELSE <<Head(items)>>) \o non_empty(Tail(items))

\* class ProfileStates(StatesGroup), in the order of the wizard
ProfileStates ==
  <<"waiting_for_background", "waiting_for_interests", "waiting_for_skills",
    "waiting_for_goals">>

\* The context of a user nobody is talking to: no state, no data.  trail is history:
\* the states set since the wizard was last started, or since the context was cleared.
NoContext == [state |-> "none", data |-> <<>>, trail |-> <<>>]

\* await state.set_state(new_state)
set_state(ctx, new_state) ==
  [ctx EXCEPT !.state = new_state,
              !.trail = IF ctx.trail # <<>> /\ ctx.trail[Len(ctx.trail)] = new_state
                        THEN ctx.trail ELSE Append(ctx.trail, new_state)]

\* await state.update_data(key=value)
update_data(ctx, key, value) ==
  [ctx EXCEPT !.data = [k \in DOMAIN ctx.data \cup {key} |->
                          IF k = key THEN value ELSE ctx.data[k]]]

\* The start of the wizard that resumes where the collected answers end.
setup_profile_resuming(ctx) ==
  set_state([ctx EXCEPT !.trail = <<>>],
            IF "skills" \in DOMAIN ctx.data THEN "waiting_for_goals"
            ELSE "waiting_for_background")

\* callback setup_profile / update_profile, in any state: the first question is asked
setup_profile(ctx) == set_state([ctx EXCEPT !.trail = <<>>], "waiting_for_background")

\* callback ask_question, in any state
ask_question_mode(ctx) == set_state(ctx, "waiting_for_question")

\* A handler's effect on the context, or that it raised and left the context as it was.
Handled(ctx) == [raised |-> FALSE, ctx |-> ctx]

\* message in waiting_for_background; message.text is stored as it is (None as no text)
process_background(ctx, message_text) ==
  Handled(set_state(update_data(ctx, "background",
                                IF IsNone(message_text) THEN <<>> ELSE Value(message_text)),
                    "waiting_for_interests"))

\* The interests step that goes on to the last question.
process_interests_skipping(ctx, message_text) ==
  IF IsNone(message_text) THEN [raised |-> TRUE, ctx |-> ctx]
  ELSE Handled(set_state(update_data(ctx, "interests", stripped_items(Value(message_text))),
                         "waiting_for_goals"))

\* message in waiting_for_interests; message.text.split on None raises
process_interests(ctx, message_text) ==
  IF IsNone(message_text) THEN [raised |-> TRUE, ctx |-> ctx]
  ELSE Handled(set_state(update_data(ctx, "interests", stripped_items(Value(message_text))),
                         "waiting_for_skills"))

\* message in waiting_for_skills
process_skills(ctx, message_text) ==
  IF IsNone(message_text) THEN [raised |-> TRUE, ctx |-> ctx]
  ELSE Handled(set_state(update_data(ctx, "skills", stripped_items(Value(message_text))),
                         "waiting_for_goals"))

\* The goals step that keeps the user at the question when the save failed.
process_goals_retrying(table, ctx, user_id, message_text, now, ok) ==
  IF IsNone(message_text)
  THEN [raised |-> TRUE, ctx |-> ctx, table |-> table, success |-> <<>>, sent |-> <<>>]
  ELSE
    LET goals == non_empty(stripped_items(Value(message_text)))
        profile ==
          [user_id |-> user_id, username |-> "user",
           background |-> [description |-> dict_get(ctx.data, "background", <<>>)],
           interests |-> dict_get(ctx.data, "interests", <<>>),
           technical_skills |-> dict_get(ctx.data, "skills", <<>>),
           career_goals |-> goals, preferred_program |-> <<>>,
           created_at |-> now, updated_at |-> now]
        saved == save_user_profile(table, profile, ok)
    IN  [raised |-> FALSE, ctx |-> IF saved.ret THEN NoContext ELSE ctx,
         table |-> saved.table, success |-> Some(saved.ret),
         sent |-> Some(IF saved.ret THEN PROFILE_SAVED ELSE PROFILE_SAVE_FAILED)]

\* message in waiting_for_goals: the profile is built from the collected answers and
\* saved, the outcome is reported and the context is cleared
process_goals(table, ctx, user_id, message_text, now, ok) ==
  IF IsNone(message_text)
  THEN [raised |-> TRUE, ctx |-> ctx, table |-> table, success |-> <<>>, sent |-> <<>>]
  ELSE
    LET goals == non_empty(stripped_items(Value(message_text)))
        profile ==
          [user_id |-> user_id, username |-> "user",
           background |-> [description |-> dict_get(ctx.data, "background", <<>>)],
           interests |-> dict_get(ctx.data, "interests", <<>>),
           technical_skills |-> dict_get(ctx.data, "skills", <<>>),
           career_goals |-> goals, preferred_program |-> <<>>,
           created_at |-> now, updated_at |-> now]
        saved == save_user_profile(table, profile, ok)
    IN  [raised |-> FALSE, ctx |-> NoContext,
         table |-> saved.table, success |-> Some(saved.ret),
         sent |-> Some(IF saved.ret THEN PROFILE_SAVED ELSE PROFILE_SAVE_FAILED)]

\* The recommendation asked for whether or not a profile was read.
get_recommendation_unchecked(store, user_id, env) ==
  LET user_profile == get_user_profile(store.user_profiles, user_id, env.profile_read_ok)
      e1 == Event("get_user_profile", <<user_id>>, user_profile)
      out == generate_program_recommendation(store, user_profile, env)
      e2 == Event("generate_program_recommendation", <<user_profile>>, out.result)
  IN  [shown |-> <<GENERATING, RECOMMENDATION_HEADER \o out.result>>,
       events |-> <<e1, e2>> \o out.events, conversations |-> out.conversations]

\* callback get_recommendation: what the user is shown, the calls made on the store and
\* the assistant, and the conversation log afterwards
get_recommendation(store, user_id, env) ==
  LET user_profile == get_user_profile(store.user_profiles, user_id, env.profile_read_ok)
      e1 == Event("get_user_profile", <<user_id>>, user_profile)
  IN  IF IsNone(user_profile)
      THEN [shown |-> <<PROFILE_NEEDED>>, events |-> <<e1>>,
            conversations |-> store.conversations]
      ELSE
        LET out == generate_program_recommendation(store, user_profile, env)
            e2 == Event("generate_program_recommendation", <<user_profile>>, out.result)
        IN  [shown |-> <<GENERATING, RECOMMENDATION_HEADER \o out.result>>,
             events |-> <<e1, e2>> \o out.events, conversations |-> out.conversations]

(***************************************************************************)
(* Specification of the handlers: the store starts without profiles, and   *)
(* each user presses the buttons and sends the messages in any order.      *)
(* call keeps the contexts of the users (fsm) and, of the handler that ran *)
(* last, the user, the trail of that user when it started (passed), what   *)
(* it sent and what it called.  The questions asked here are the ones the  *)
(* assistant turns away, so the conversation log stays as it is; the       *)
(* pipeline behind an answered question is specified by Spec.              *)
(***************************************************************************)
\* message.text of an answer to the wizard: a list, or a message without text
WizardMessages == {<<>>, Some(M_LIST)}

\* message.text of a question
QuestionMessages == {<<>>, Some(Q_WEATHER)}

\* what the collaborators do during one question: the store answers, the model may fail
QuestionEnvs ==
  [profile_read_ok : {TRUE}, programs_read_ok : {TRUE}, completion : ContextCompletions,
   now : Timestamps, save_ok : {TRUE}]

\* what the collaborators do during one get_recommendation
RecommendationEnvs ==
  [profile_read_ok : BOOLEAN, programs_read_ok : {TRUE}, completion : ContextCompletions]

InitWizard ==
  /\ programs = <<PROGRAM_BARE>>
  /\ user_profiles = <<>>
  /\ conversations = <<>>
  /\ call = [op |-> "init", user |-> 0, fsm |-> [u \in UserIds |-> NoContext],
             passed |-> <<>>, raised |-> FALSE, sent |-> <<>>, success |-> <<>>,
             events |-> <<>>]

\* The handler op ran for user u, left the context ctx and sent and called what is given.
Ran(op, u, ctx, raised, sent, success, events) ==
  call' = [op |-> op, user |-> u, fsm |-> [call.fsm EXCEPT ![u] = ctx],
           passed |-> call.fsm[u].trail, raised |-> raised, sent |-> sent,
           success |-> success, events |-> events]

SetupProfile(u) ==
  /\ Ran("setup_profile", u, setup_profile(call.fsm[u]), FALSE, <<>>, <<>>, <<>>)
  /\ UNCHANGED <<programs, user_profiles, conversations>>

AskQuestionMode(u) ==
  /\ Ran("ask_question_mode", u, ask_question_mode(call.fsm[u]), FALSE, <<>>, <<>>, <<>>)
  /\ UNCHANGED <<programs, user_profiles, conversations>>

\* @router.message(StateFilter("waiting_for_question"))
ProcessQuestion(u) ==
  /\ call.fsm[u].state = "waiting_for_question"
  /\ \E message_text \in QuestionMessages, env \in QuestionEnvs :
       LET out == get_response(db, message_text, u, env)
       IN  /\ Ran("process_question", u, NoContext, FALSE, Some(out.result), <<>>,
                  out.events)
           /\ conversations' = out.conversations
  /\ UNCHANGED <<programs, user_profiles>>

\* @router.message(ProfileStates.waiting_for_background)
ProcessBackground(u) ==
  /\ call.fsm[u].state = "waiting_for_background"
  /\ \E message_text \in WizardMessages \ {<<>>} :
       LET out == process_background(call.fsm[u], message_text)
       IN  Ran("process_background", u, out.ctx, out.raised, <<>>, <<>>, <<>>)
  /\ UNCHANGED <<programs, user_profiles, conversations>>

\* @router.message(ProfileStates.waiting_for_interests)
ProcessInterests(u) ==
  /\ call.fsm[u].state = "waiting_for_interests"
  /\ \E message_text \in WizardMessages :
       LET out == process_interests(call.fsm[u], message_text)
       IN  Ran("process_interests", u, out.ctx, out.raised, <<>>, <<>>, <<>>)
  /\ UNCHANGED <<programs, user_profiles, conversations>>

\* @router.message(ProfileStates.waiting_for_skills)
ProcessSkills(u) ==
  /\ call.fsm[u].state = "waiting_for_skills"
  /\ \E message_text \in WizardMessages :
       LET out == process_skills(call.fsm[u], message_text)
       IN  Ran("process_skills", u, out.ctx, out.raised, <<>>, <<>>, <<>>)
  /\ UNCHANGED <<programs, user_profiles, conversations>>

\* @router.message(ProfileStates.waiting_for_goals)
ProcessGoals(u) ==
  /\ call.fsm[u].state = "waiting_for_goals"
  /\ \E message_text \in WizardMessages, now \in Timestamps, ok \in BOOLEAN :
       LET out == process_goals(user_profiles, call.fsm[u], u, message_text, now, ok)
       IN  /\ Ran("process_goals", u, out.ctx, out.raised, out.sent, out.success, <<>>)
           /\ user_profiles' = out.table
  /\ UNCHANGED <<programs, conversations>>

\* @router.message(): the fallback, for a user in no state
HandleOtherMessages(u) ==
  /\ call.fsm[u].state = "none"
  /\ \E message_text \in QuestionMessages, env \in QuestionEnvs :
       LET out == get_response(db, message_text, u, env)
       IN  /\ Ran("handle_other_messages", u, call.fsm[u], FALSE, Some(out.result),
                  <<>>, out.events)
           /\ conversations' = out.conversations
  /\ UNCHANGED <<programs, user_profiles>>

GetRecommendation(u) ==
  /\ \E env \in RecommendationEnvs :
       LET out == get_recommendation(db, u, env)
       IN  /\ Ran("get_recommendation", u, call.fsm[u], FALSE,
                  Some(out.shown[Len(out.shown)]), <<>>, out.events)
           /\ conversations' = out.conversations
  /\ UNCHANGED <<programs, user_profiles>>

NextWizard ==
  \E u \in UserIds :
    \/ SetupProfile(u)
    \/ AskQuestionMode(u)
    \/ ProcessQuestion(u)
    \/ ProcessBackground(u)
    \/ ProcessInterests(u)
    \/ ProcessSkills(u)
    \/ ProcessGoals(u)
    \/ HandleOtherMessages(u)
    \/ GetRecommendation(u)

SpecWizard == InitWizard /\ [][NextWizard]_vars


(***************************************************************************)
(* The router.  The dispatcher offers a message to the message handlers in *)
(* the order of their registration and runs the first whose filters pass:  *)
(* a Command filter passes when the text begins with that command, a state *)
(* filter when the sender is in that state; a handler registered with no   *)
(* filter takes every message.  A callback query goes to the handler       *)
(* registered for its data.                                                *)
(***************************************************************************)
\* "/start"
CMD_START == <<"/", "lat_s", "lat_t", "lat_a", "lat_r", "lat_t">>

\* "/help"
CMD_HELP == <<"/", "lat_h", "lat_e", "lat_l", "lat_p">>

\* Command(name): the first word of the text is the command
Command(command, message_text) ==
  /\ ~IsNone(message_text)
  /\ Len(Value(message_text)) >= Len(command)
  /\ SubSeq(Value(message_text), 1, Len(command)) = command
  /\ Len(Value(message_text)) > Len(command) =>
       Value(message_text)[Len(command) + 1] \in Whitespace

\* @router.message(...), in the order of the module
MessageHandlers ==
  <<[handler |-> "cmd_start", command |-> Some(CMD_START), state |-> <<>>],
    [handler |-> "process_question", command |-> <<>>,
     state |-> Some("waiting_for_question")],
    [handler |-> "process_background", command |-> <<>>, state |-> Some(ProfileStates[1])],
    [handler |-> "process_interests", command |-> <<>>, state |-> Some(ProfileStates[2])],
    [handler |-> "process_skills", command |-> <<>>, state |-> Some(ProfileStates[3])],
    [handler |-> "process_goals", command |-> <<>>, state |-> Some(ProfileStates[4])],
    [handler |-> "cmd_help", command |-> Some(CMD_HELP), state |-> <<>>],
    [handler |-> "handle_other_messages", command |-> <<>>, state |-> <<>>]>>

\* the filters of the i-th message handler pass
Passes(i, state, message_text) ==
  /\ IF IsNone(MessageHandlers[i].command) THEN TRUE
     ELSE Command(Value(MessageHandlers[i].command), message_text)
  /\ IF IsNone(MessageHandlers[i].state) THEN TRUE
     ELSE Value(MessageHandlers[i].state) = state

\* The router that runs the handler registered last among those whose filters pass.
route_message_last(state, message_text) ==
  LET passing == {i \in 1..Len(MessageHandlers) : Passes(i, state, message_text)}
  IN  MessageHandlers[CHOOSE i \in passing : \A j \in passing : j <= i].handler

\* the handler that takes the message: the first registered whose filters pass
route_message(state, message_text) ==
  LET passing == {i \in 1..Len(MessageHandlers) : Passes(i, state, message_text)}
  IN  MessageHandlers[CHOOSE i \in passing : \A j \in passing : i <= j].handler

\* @router.callback_query(F.data == ...): the handler of each callback data
route_callback(data) ==
  CASE data = "main_menu" -> "show_main_menu"
    [] data = "ask_question" -> "ask_question_mode"
    [] data = "compare_programs" -> "compare_programs"
    [] data = "get_recommendation" -> "get_recommendation"
    [] data = "admission_guide" -> "admission_guide"
    [] data = "user_profile" -> "user_profile_menu"
    [] data = "view_profile" -> "view_profile"
    [] data \in {"setup_profile", "update_profile"} -> "setup_profile"
    [] data = "help" -> "show_help"

\* What a handler did: whether an exception left it, the context and the profile table
\* afterwards, the result of the save it made (success) and the calls it made.
Effect(raised, ctx, table, success, events) ==
  [raised |-> raised, ctx |-> ctx, table |-> table, success |-> success,
   events |-> events]

\* the message handler of that name, run on the message of user_id
handle_message(handler, store, ctx, user_id, message_text, env, ok) ==
  CASE handler = "cmd_start" ->
         Effect(FALSE, ctx, store.user_profiles, <<>>,
                <<Event("get_user_profile", <<user_id>>,
                        get_user_profile(store.user_profiles, user_id,
                                         env.profile_read_ok))>>)
    [] handler = "process_question" ->
         Effect(FALSE, NoContext, store.user_profiles, <<>>,
                get_response(store, message_text, user_id, env).events)
    [] handler = "process_background" ->
         LET out == process_background(ctx, message_text)
         IN  Effect(out.raised, out.ctx, store.user_profiles, <<>>, <<>>)
    [] handler = "process_interests" ->
         LET out == process_interests(ctx, message_text)
         IN  Effect(out.raised, out.ctx, store.user_profiles, <<>>, <<>>)
    [] handler = "process_skills" ->
         LET out == process_skills(ctx, message_text)
         IN  Effect(out.raised, out.ctx, store.user_profiles, <<>>, <<>>)
    [] handler = "process_goals" ->
         LET out == process_goals(store.user_profiles, ctx, user_id, message_text,
                                  env.now, ok)
         IN  Effect(out.raised, out.ctx, out.table, out.success, <<>>)
    [] handler = "cmd_help" -> Effect(FALSE, ctx, store.user_profiles, <<>>, <<>>)
    [] handler = "handle_other_messages" ->
         Effect(FALSE, ctx, store.user_profiles, <<>>,
                get_response(store, message_text, user_id, env).events)

\* the callback handler of that name, run on the callback of user_id
handle_callback(handler, store, ctx, user_id, env) ==
  CASE handler = "ask_question_mode" ->
         Effect(FALSE, ask_question_mode(ctx), store.user_profiles, <<>>, <<>>)
    [] handler = "setup_profile" ->
         Effect(FALSE, setup_profile(ctx), store.user_profiles, <<>>, <<>>)
    [] handler = "compare_programs" ->
         Effect(FALSE, ctx, store.user_profiles, <<>>, compare_programs(store, env).events)
    [] handler = "admission_guide" ->
         Effect(FALSE, ctx, store.user_profiles, <<>>,
                generate_admission_guide(store, env).events)
    [] handler = "get_recommendation" ->
         Effect(FALSE, ctx, store.user_profiles, <<>>,
                get_recommendation(store, user_id, env).events)
    [] handler = "view_profile" ->
         Effect(FALSE, ctx, store.user_profiles, <<>>,
                <<Event("get_user_profile", <<user_id>>,
                        get_user_profile(store.user_profiles, user_id,
                                         env.profile_read_ok))>>)
    [] handler \in {"show_main_menu", "user_profile_menu", "show_help"} ->
         Effect(FALSE, ctx, store.user_profiles, <<>>, <<>>)

(***************************************************************************)
(* Specification of the router: one user sends messages and presses the    *)
(* buttons of the menus in any order.  call keeps the context of the user  *)
(* (fsm) and, of the update handled last, the handler that took it (op),   *)
(* the text or callback data (update), the context before (ctx), the clock *)
(* read by process_goals (now) and what the handler did.  The model client *)
(* fails here, so nothing is logged; the answered question is specified by *)
(* Spec.                                                                   *)
(***************************************************************************)
\* message.text, by the state of the sender: a list of items, a question on the
\* programs, a question off the subject, a command, or a message without text
RouterMessages(state) ==
  CASE state = ProfileStates[1] -> {Some(M_LIST), Some(Q_DIFFER), Some(CMD_START)}
    [] state \in {ProfileStates[2], ProfileStates[3]} ->
         {<<>>, Some(M_LIST), Some(CMD_START)}
    [] state = ProfileStates[4] -> {<<>>, Some(M_LIST), Some(Q_DIFFER), Some(CMD_START)}
    [] state = "waiting_for_question" ->
         {<<>>, Some(Q_WEATHER), Some(Q_DIFFER), Some(CMD_START)}
    [] state = "none" ->
         {<<>>, Some(Q_WEATHER), Some(Q_DIFFER), Some(CMD_START), Some(CMD_HELP)}

\* callback.data of the buttons
RouterCallbacks ==
  {"main_menu", "ask_question", "compare_programs", "get_recommendation",
   "admission_guide", "user_profile", "view_profile", "setup_profile", "update_profile",
   "help"}

\* datetime.now().isoformat() of two runs
RouterTimes == {"2025-01-01T12:00:00", "2025-01-02T12:00:00"}

\* what the collaborators do during one update
RouterEnvs ==
  [profile_read_ok : BOOLEAN, programs_read_ok : {TRUE},
   completion : {c \in ContextCompletions : c.raises}, now : RouterTimes,
   save_ok : {TRUE}]

InitRouter ==
  /\ programs = <<PROGRAM_BARE>>
  /\ user_profiles = <<>>
  /\ conversations = <<>>
  /\ call = [op |-> "init", kind |-> "none", update |-> <<>>, fsm |-> NoContext, ctx |-> NoContext,
             now |-> "", raised |-> FALSE, success |-> <<>>, events |-> <<>>]

\* the update was handled by the handler op with the effect out
Routed(op, kind, update, env, out) ==
  /\ call' = [op |-> op, kind |-> kind, update |-> update, fsm |-> out.ctx, ctx |-> call.fsm,
              now |-> IF op = "process_goals" THEN env.now ELSE "",
              raised |-> out.raised, success |-> out.success,
              events |-> out.events]
  /\ user_profiles' = out.table
  /\ UNCHANGED <<programs, conversations>>

\* In a state of the question mode the texts are those the classifier is tabulated for.
TextMessage ==
  \E message_text \in RouterMessages(call.fsm.state), env \in RouterEnvs, ok \in BOOLEAN :
    LET handler == route_message(call.fsm.state, message_text)
    IN  /\ handler \in {"process_question", "handle_other_messages"} =>
              message_text \in UserMessages
        /\ Routed(handler, "message", message_text, env,
                  handle_message(handler, db, call.fsm, 1, message_text, env, ok))

CallbackQuery ==
  \E data \in RouterCallbacks, env \in RouterEnvs :
    LET handler == route_callback(data)
    IN  Routed(handler, "callback", data, env,
               handle_callback(handler, db, call.fsm, 1, env))

NextRouter == TextMessage \/ CallbackQuery

SpecRouter == InitRouter /\ [][NextRouter]_vars


(***************************************************************************)
(* ITMOParser.  A page is what session.get(url) gives: the request raises, *)
(* the status is an error (raise_for_status raises), or a document, of     *)
(* which the model keeps the text of the h1 element (None where the page   *)
(* has none); of the other elements the pages of the model have none, so   *)
(* the extractors return their empty values.                               *)
(***************************************************************************)
REQUEST_DELAY == 1

\* how many times the parser is run
MaxRuns == 2

\* urls of parse_and_save_programs
PROGRAM_URLS == <<URL_AI, URL_AI_PRODUCT>>

Pages ==
  {[fetch |-> "raises", h1 |-> <<>>], [fetch |-> "http_error", h1 |-> <<>>]}
    \cup [fetch : {"ok"},
          h1 : {<<>>, Some(<<" ">> \o PROGRAM_AI \o <<"\n">>), Some(PROGRAM_AI_PRODUCT)}]

\* h1_tag.get_text(strip=True), or "" without an h1
_extract_program_name(page) == IF IsNone(page.h1) THEN <<>> ELSE strip(Value(page.h1))

\* what the try block of parse_program_page returns, or that it raised
parse_program_page_try(url, page) ==
  IF page.fetch # "ok" THEN [raised |-> TRUE, data |-> <<>>]
  ELSE [raised |-> FALSE,
        data |-> Some([name |-> _extract_program_name(page), url |-> url,
                       institute |-> <<>>, duration |-> <<>>, language |-> <<>>,
                       cost |-> <<>>, description |-> <<>>, directions |-> <<>>,
                       career_prospects |-> <<>>, partners |-> <<>>, team |-> <<>>,
                       admission_ways |-> <<>>, faq |-> <<>>, exam_dates |-> <<>>])]

\* parse_program_page with no except clause.
parse_program_page_uncaught(url, page) == parse_program_page_try(url, page)

\* except Exception: return None
parse_program_page(url, page) ==
  LET out == parse_program_page_try(url, page)
  IN  IF out.raised THEN [raised |-> FALSE, data |-> <<>>] ELSE out

\* Program(name=program_data["name"], ..., created_at=now, updated_at=now)
program_of(program_data, now) ==
  [k \in DOMAIN program_data \cup {"created_at", "updated_at"} |->
     IF k \in {"created_at", "updated_at"} THEN now ELSE program_data[k]]

\* the body of the loop for the urls from the i-th on; pages[i] is what the i-th url
\* gives, writes[i] whether the store takes the i-th save
RECURSIVE parse_and_save_from(_, _, _, _, _)
parse_and_save_from(i, rows, pages, writes, now) ==
  IF i > Len(PROGRAM_URLS) THEN [raised |-> FALSE, rows |-> rows, events |-> <<>>]
  ELSE
    LET url == PROGRAM_URLS[i]
        parsed == parse_program_page(url, pages[i])
        e1 == Event("get", <<url>>, pages[i])
    IN  IF parsed.raised THEN [raised |-> TRUE, rows |-> rows, events |-> <<e1>>]
        ELSE
          LET saved == IF IsNone(parsed.data) THEN [rows |-> rows, ret |-> FALSE]
                       ELSE save_program(rows, program_of(Value(parsed.data), now),
                                         writes[i])
              e2 == IF IsNone(parsed.data) THEN <<>>
                    ELSE <<Event("save_program",
                                 <<program_of(Value(parsed.data), now)>>, saved.ret)>>
              e3 == Event("sleep", <<REQUEST_DELAY>>, <<>>)
              rest == parse_and_save_from(i + 1, saved.rows, pages, writes, now)
          IN  [rest EXCEPT !.events = <<e1>> \o e2 \o <<e3>> \o rest.events]

parse_and_save_programs(rows, pages, writes, now) ==
  parse_and_save_from(1, rows, pages, writes, now)

(***************************************************************************)
(* Specification of the parser: the store starts empty, the parser is run  *)
(* on what the two pages give at that time, MaxRuns times at most, and the  *)
(* programs are read.                                                      *)
(* call keeps the last operation and, in run, the last run of the parser:  *)
(* the rows before it, the pages and the calls it made.                    *)
(***************************************************************************)
InitParser ==
  /\ programs = <<>>
  /\ user_profiles = <<>>
  /\ conversations = <<>>
  /\ call = [op |-> "init", raised |-> FALSE, result |-> <<>>, runs |-> 0,
             run |-> [before |-> <<>>, pages |-> <<>>, events |-> <<>>]]

ParseAndSavePrograms ==
  \E pages \in [1..Len(PROGRAM_URLS) -> Pages], writes \in [1..Len(PROGRAM_URLS) -> BOOLEAN],
     now \in Timestamps :
    LET out == parse_and_save_programs(programs, pages, writes, now)
    IN  /\ call.runs < MaxRuns
        /\ programs' = out.rows
        /\ call' = [op |-> "parse_and_save_programs", raised |-> out.raised,
                    result |-> <<>>, runs |-> call.runs + 1,
                    run |-> [before |-> programs, pages |-> pages, events |-> out.events]]
        /\ UNCHANGED <<user_profiles, conversations>>

ReadPrograms ==
  \E ok \in BOOLEAN :
    /\ call' = [call EXCEPT !.op = "get_all_programs", !.raised = FALSE,
                            !.result = get_all_programs(programs, ok)]
    /\ UNCHANGED <<programs, user_profiles, conversations>>

NextParser == ParseAndSavePrograms \/ ReadPrograms

SpecParser == InitParser /\ [][NextParser]_vars

\* the i-th page gave a document
Parsed(i) == call.run.pages[i].fetch = "ok"

\* the names of the calls the run made for the i-th url
CallsFor(i) ==
  IF Parsed(i) THEN <<"get", "save_program", "sleep">> ELSE <<"get", "sleep">>

\* C32: parse_and_save_programs does not raise; it requests the two urls in order, each
\* once; for a url whose request or parse failed it calls save_program not at all and
\* goes on to the next url, for a url that parsed it calls save_program once, with the
\* program of that url; after each url it sleeps once for the configured delay.
C32_BothUrlsProcessed ==
  call.op = "parse_and_save_programs" =>
    LET events == call.run.events
        names == [k \in 1..Len(events) |-> events[k].name]
        gets == Calls(events, "get")
    IN  /\ ~call.raised
        /\ names = CallsFor(1) \o CallsFor(2)
        /\ events[1].args = <<PROGRAM_URLS[1]>>
        /\ events[Len(CallsFor(1)) + 1].args = <<PROGRAM_URLS[2]>>
        /\ \A k \in Calls(events, "save_program") :
             /\ events[k - 1].name = "get"
             /\ events[k].args[1].url = events[k - 1].args[1]
        /\ \A k \in Calls(events, "sleep") : events[k].args = <<REQUEST_DELAY>>

\* The first request failed and the second page was saved.
C32_Witness ==
  /\ call.op = "parse_and_save_programs"
  /\ call.run.pages[1].fetch = "raises"
  /\ Parsed(2)
  /\ Len(call.run.events) = 5
  /\ Len(programs) = 1
  /\ programs[1].url = URL_AI_PRODUCT

\* every save_program of the run returned True
AllSaved ==
  \A k \in Calls(call.run.events, "save_program") : call.run.events[k].ret = TRUE

\* C37: the programs read after a run that began with an empty store and in which both
\* pages were fetched and parsed (and every save and the read succeeded) are two, one of
\* each url.
C37_TwoPrograms ==
  (/\ call.op = "get_all_programs"
   /\ call.run.before = <<>>
   /\ call.run.pages # <<>>
   /\ Parsed(1)
   /\ Parsed(2)
   /\ AllSaved
   /\ call.result = programs) =>
    /\ Len(call.result) = 2
    /\ {call.result[k].url : k \in 1..Len(call.result)} = {URL_AI, URL_AI_PRODUCT}

(***************************************************************************)
(* The handlers as tasks.  dp.start_polling(bot) makes one task for each   *)
(* update; a task runs until it awaits a call of the Telegram API          *)
(* (send_chat_action, message.answer, edit_text), where the other tasks    *)
(* take their turns, and goes on when that call returns or raises.  The    *)
(* calls on the FSM storage (MemoryStorage) and on the store, and          *)
(* get_response with the client it calls, do not give the turn away.       *)
(***************************************************************************)
\* Извините, произошла ошибка при обработке вашего вопроса. Попробуйте еще раз.
QUESTION_ERROR ==
  <<"I", "z", "v", "i", "n", "i", "t", "e", ",", " ", "p", "r", "o", "i", "z",
  "o", "sh", "l", "a", " ", "o", "sh", "i", "b", "k", "a", " ", "p", "r",
  "i", " ", "o", "b", "r", "a", "b", "o", "t", "k", "e", " ", "v", "a", "sh",
  "e", "g", "o", " ", "v", "o", "p", "r", "o", "s", "a", ".", " ", "P", "o",
  "p", "r", "o", "b", "u", "j", "t", "e", " ", "e", "shch", "e", " ", "r",
  "a", "z", ".">>

\* Произошла ошибка при обработке сообщения. Попробуйте использовать меню.
MESSAGE_ERROR ==
  <<"P", "r", "o", "i", "z", "o", "sh", "l", "a", " ", "o", "sh", "i", "b",
  "k", "a", " ", "p", "r", "i", " ", "o", "b", "r", "a", "b", "o", "t", "k",
  "e", " ", "s", "o", "o", "b", "shch", "e", "n", "i", "ya", ".", " ", "P",
  "o", "p", "r", "o", "b", "u", "j", "t", "e", " ", "i", "s", "p", "o", "l",
  "soft", "z", "o", "v", "a", "t", "soft", " ", "m", "e", "n", "yu", ".">>

\* how many updates are delivered
MaxTasks == 2

\* whether get_response gives the turn away at the stage: it awaits nothing
suspends_at_create(stage) == stage = "create"

suspends(stage) == FALSE

\* where a handler first awaits the Telegram API
first_await(handler) ==
  CASE handler \in {"process_question", "handle_other_messages"} -> "typing"
    [] handler = "ask_question_mode" -> "editing"
    [] OTHER -> "answering"

\* Where the handler goes on when the awaited call returned (ok) or raised, and what it
\* does before it awaits again or ends; the except branch sends nothing.
resume_silent(handler, pc, ok) ==
  IF handler \in {"process_question", "handle_other_messages"}
  THEN CASE pc = "typing" /\ ok -> [pc |-> "answering", does |-> "get_response"]
         [] pc = "typing" /\ ~ok -> [pc |-> "failed", does |-> "nothing"]
         [] pc = "answering" /\ ~ok -> [pc |-> "done", does |-> "nothing"]
         [] OTHER -> [pc |-> "done",
                      does |-> IF handler = "process_question" THEN "clear"
                               ELSE "nothing"]
  ELSE IF ~ok THEN [pc |-> "failed", does |-> "nothing"]
  ELSE [pc |-> "done",
        does |-> IF handler = "process_goals" THEN "clear" ELSE "set_question"]

\* where the handler goes on when the awaited call returned (ok) or raised, and what it
\* does before it awaits again or ends
resume(handler, pc, ok) ==
  IF handler \in {"process_question", "handle_other_messages"}
  THEN CASE pc = "typing" /\ ok -> [pc |-> "answering", does |-> "get_response"]
         [] pc = "typing" /\ ~ok -> [pc |-> "failed", does |-> "nothing"]
         [] pc = "answering" /\ ~ok -> [pc |-> "apologising", does |-> "apologise"]
         [] pc = "apologising" /\ ~ok -> [pc |-> "failed", does |-> "nothing"]
         [] OTHER -> [pc |-> "done",
                      does |-> IF handler = "process_question" THEN "clear"
                               ELSE "nothing"]
  ELSE IF ~ok THEN [pc |-> "failed", does |-> "nothing"]
  ELSE [pc |-> "done",
        does |-> IF handler = "process_goals" THEN "clear" ELSE "set_question"]

\* the text of the except branch
error_reply(handler) ==
  IF handler = "process_question" THEN QUESTION_ERROR ELSE MESSAGE_ERROR

\* the context after what the handler does
context_after(ctx, does) ==
  CASE does = "clear" -> NoContext
    [] does = "set_question" -> set_state(ctx, "waiting_for_question")
    [] OTHER -> ctx
(***************************************************************************)
(* Specification of the tasks of one user who has a stored profile and     *)
(* talks to the bot in two chats: the context of the FSM is kept for each  *)
(* chat, the profile and the log for the user (message.from_user.id).  In  *)
(* the first chat the user is outside the wizard, in the second at its     *)
(* goals step.  call keeps the contexts (fsm), the tasks and the last      *)
(* step.  Of a task it keeps the chat, the handler, the text of the        *)
(* message, the place (pc), the calls it made of get_response (asked), the *)
(* texts it passed to message.answer (sent), the stage of its              *)
(* get_response, the profile table that get_response looked the profile up *)
(* in (seen), the profile it found (profile) and whether it wrote to the   *)
(* log (logged).                                                           *)
(***************************************************************************)
Tasks == 1..MaxTasks

Chats == 1..2

GoalsContext ==
  [state |-> "waiting_for_goals",
   data |-> [background |-> M_LIST, interests |-> stripped_items(M_LIST),
             skills |-> stripped_items(M_LIST)],
   trail |-> <<"waiting_for_background", "waiting_for_interests", "waiting_for_skills",
               "waiting_for_goals">>]

NoTask ==
  [chat |-> 0, handler |-> "none", update |-> <<>>, pc |-> "undelivered", asked |-> <<>>,
   sent |-> <<>>, stage |-> "none", seen |-> <<>>, profile |-> <<>>, logged |-> FALSE]

\* message.text of the messages
TaskMessages == {Q_DIFFER, Q_WEATHER}

\* what the collaborators do during one get_response
TaskEnvs ==
  [profile_read_ok : {TRUE}, programs_read_ok : {TRUE}, completion : ContextCompletions,
   now : Timestamps, save_ok : {TRUE}]

InitTasks ==
  /\ programs = <<PROGRAM_BARE>>
  /\ user_profiles = <<ProfileInput(1)>>
  /\ conversations = <<>>
  /\ call = [op |-> "init", task |-> 0, fsm |-> <<NoContext, GoalsContext>>,
             tasks |-> [t \in Tasks |-> NoTask]]

\* The update is delivered: its task runs the handler up to its first await.
DeliverUpdate(t) ==
  /\ call.tasks[t].pc = "undelivered"
  /\ \A earlier \in 1..(t - 1) : call.tasks[earlier].pc # "undelivered"
  /\ \E chat \in Chats, update \in {<<>>} \cup {Some(text) : text \in TaskMessages},
        now \in Timestamps :
       LET handler == IF IsNone(update) THEN route_callback("ask_question")
                      ELSE route_message(call.fsm[chat].state, update)
           goals == process_goals(user_profiles, call.fsm[chat], 1, update, now, TRUE)
       IN  /\ user_profiles' = IF handler = "process_goals" THEN goals.table
                               ELSE user_profiles
           /\ call' =
                [call EXCEPT
                   !.op = "deliver", !.task = t,
                   !.tasks[t] = [NoTask EXCEPT
                                   !.chat = chat, !.handler = handler, !.update = update,
                                   !.pc = first_await(handler),
                                   !.sent = IF handler = "process_goals"
                                            THEN <<Value(goals.sent)>> ELSE <<>>]]
  /\ UNCHANGED <<programs, conversations>>

\* The task goes on with get_response from the stage it is at to the next stage where
\* get_response gives the turn away, or to its end.
Ask(t, env) ==
  LET task == call.tasks[t]
      lookup == task.stage = "none"
      table == IF lookup THEN user_profiles ELSE Value(task.seen)
      asked == IF lookup THEN Append(task.asked, [text |-> task.update, user_id |-> 1])
               ELSE task.asked
  IN  IF lookup /\ suspends("create")
      THEN /\ call' = [call EXCEPT !.op = "get_response", !.task = t,
                                   !.tasks[t].stage = "create",
                                   !.tasks[t].seen = Some(table),
                                   !.tasks[t].asked = asked]
           /\ UNCHANGED conversations
      ELSE LET out == get_response([db EXCEPT !.user_profiles = table],
                                   task.update, 1, env)
           IN  /\ Len(out.conversations) <= MaxLog
               /\ conversations' = out.conversations
               /\ call' = [call EXCEPT
                             !.op = "get_response", !.task = t,
                             !.tasks[t].pc = "answering",
                             !.tasks[t].stage = "returned",
                             !.tasks[t].seen = Some(table),
                             !.tasks[t].asked = asked,
                             !.tasks[t].profile =
                               IF Calls(out.events, "get_user_profile") = {} THEN <<>>
                               ELSE Some(Returns(out.events, "get_user_profile")),
                             !.tasks[t].sent = <<out.result>>,
                             !.tasks[t].logged = out.conversations # conversations]

\* The call the task awaits returns (ok) or raises: the task runs to its next await or
\* to its end.
ResumeTask(t) ==
  /\ call.tasks[t].pc \notin {"undelivered", "done", "failed"}
  /\ \E ok \in BOOLEAN, env \in TaskEnvs :
       LET task == call.tasks[t]
           next == IF task.stage = "create"
                   THEN [pc |-> "answering", does |-> "get_response"]
                   ELSE resume(task.handler, task.pc, ok)
       IN  IF next.does = "get_response" THEN Ask(t, env)
           ELSE /\ env.completion.raises
                /\ task.stage = "create" => ok
                /\ call' = [call EXCEPT
                              !.op = "resume", !.task = t,
                              !.fsm[task.chat] =
                                context_after(call.fsm[task.chat], next.does),
                              !.tasks[t].pc = next.pc,
                              !.tasks[t].sent =
                                IF next.does = "apologise"
                                THEN Append(task.sent, error_reply(task.handler))
                                ELSE task.sent]
                /\ UNCHANGED conversations
  /\ UNCHANGED <<programs, user_profiles>>

NextTasks == \E t \in Tasks : DeliverUpdate(t) \/ ResumeTask(t)

SpecTasks == InitTasks /\ [][NextTasks]_vars

(***************************************************************************)
(* Vocabulary of the properties of the Record Store.                       *)
(***************************************************************************)
\* the call was a read of the store that did not fail
ReadDone(op) == call.op = op /\ ~call.failed

\* the call was a read of the store that failed
ReadFailed(op) == call.op = op /\ call.failed

\* what a read by key gives when the record most recently saved with success
\* under each key is found: that record, or None for a key never saved
LatestOf(saved, key) == IF key \in DOMAIN saved THEN Some(saved[key]) ELSE <<>>

\* the list programs holds exactly the records of saved, one for each name
OnePerName(listed, saved) ==
  /\ Len(listed) = Cardinality(DOMAIN saved)
  /\ {listed[i].name : i \in 1..Len(listed)} = DOMAIN saved
  /\ \A i \in 1..Len(listed) : listed[i] = saved[listed[i].name]

(***************************************************************************)
(* C22 as stated.  After any sequence of saves, get_program of a name      *)
(* gives a record equal in all fields to the program most recently saved   *)
(* with success under that name, and None for a name never saved;          *)
(* get_all_programs gives exactly one program for each name saved.         *)
(***************************************************************************)
C22_Original ==
  /\ call.op = "get_program" =>
       call.result = LatestOf(call.latest.programs, call.args[1])
  /\ call.op = "get_all_programs" => OnePerName(call.result, call.latest.programs)

(***************************************************************************)
(* C22.  The table holds one row for each name saved with success, however *)
(* many times it was saved.  A get_program that does not fail gives a      *)
(* record equal in all fields, nested directions, team and faq and both    *)
(* timestamps included, to the program most recently saved with success    *)
(* under the name, and None for a name never saved; a get_all_programs     *)
(* that does not fail gives exactly one program for each name saved.  A    *)
(* read that fails gives None, or the empty list.                          *)
(***************************************************************************)
C22_RoundTrip ==
  /\ Len(programs) = Cardinality(DOMAIN call.latest.programs)
  /\ ReadDone("get_program") =>
       call.result = LatestOf(call.latest.programs, call.args[1])
  /\ ReadDone("get_all_programs") => OnePerName(call.result, call.latest.programs)
  /\ ReadFailed("get_program") \/ ReadFailed("get_all_programs") => call.result = <<>>

\* a program with nested fields was saved over an earlier record of its name,
\* beside a program of another name, and reading the name gives it back
C22_Witness ==
  /\ call.op = "save_program"
  /\ call.result
  /\ call.existed
  /\ call.args[1].team # <<>>
  /\ Len(programs) = 2
  /\ get_program(programs, call.args[1].name, TRUE) = Some(call.args[1])

(***************************************************************************)
(* C23 as stated.  After any sequence of saves, get_user_profile of a user *)
(* gives a record equal in all fields to the profile most recently saved   *)
(* with success for that user, and None when none was ever saved.          *)
(***************************************************************************)
C23_Original ==
  call.op = "get_user_profile" =>
    call.result = LatestOf(call.latest.user_profiles, call.args[1])

(***************************************************************************)
(* C23.  The table holds at most one row for each user_id: exactly the     *)
(* users for whom a profile was saved with success.  A get_user_profile    *)
(* that does not fail gives a record equal in all fields to the profile    *)
(* most recently saved with success for that user, nothing of an earlier   *)
(* record or of another user's record in it, and None when no profile was  *)
(* ever saved for the user; a read that fails gives None.  A step that is  *)
(* not a successful save for user u leaves the row of u as it is.          *)
(***************************************************************************)
C23_ProfileUpsert ==
  /\ [](/\ DOMAIN user_profiles = DOMAIN call.latest.user_profiles
        /\ ReadDone("get_user_profile") =>
             call.result = LatestOf(call.latest.user_profiles, call.args[1])
        /\ ReadFailed("get_user_profile") => call.result = <<>>)
  /\ [][\A u \in UserIds :
          \/ /\ call'.op = "save_user_profile"
             /\ call'.result
             /\ call'.args[1].user_id = u
          \/ get_user_profile(user_profiles', u, TRUE) = get_user_profile(user_profiles, u, TRUE)]_vars

\* the profile of user 1 was saved over an earlier one while user 2 has a
\* profile, and reading user 1 gives the new one
C23_Witness ==
  /\ call.op = "save_user_profile"
  /\ call.result
  /\ call.existed
  /\ call.args[1].user_id = 1
  /\ 2 \in DOMAIN user_profiles
  /\ row_user_profile(user_profiles[1]) = call.args[1]
  /\ row_user_profile(user_profiles[2]) = ProfileInput(2)

(***************************************************************************)
(* C24.  The conversation log is append-only: every step of the store,     *)
(* saves of programs and profiles and overwrites of a profile included,    *)
(* leaves each entry of the log at its place with the same user_id,        *)
(* message, response and timestamp, and the log never gets shorter.        *)
(* Entries of one user stand side by side, and an entry is written for a   *)
(* user_id that has no profile.                                            *)
(***************************************************************************)
C24_AppendOnly ==
  [][/\ Len(conversations') >= Len(conversations)
     /\ \A i \in 1..Len(conversations) : conversations'[i] = conversations[i]]_vars

\* two entries of user 2, who has no profile, are in the log when the profile
\* of user 1 is overwritten
C24_Witness ==
  /\ Len(conversations) = 2
  /\ conversations[1].user_id = 2
  /\ conversations[2].user_id = 2
  /\ 2 \notin DOMAIN user_profiles
  /\ call.op = "save_user_profile"
  /\ call.result
  /\ call.existed

(***************************************************************************)
(* C27.  Every write of the Record Store returns true or false and never   *)
(* raises.  A write that returns false leaves the three tables as they     *)
(* were.  A write that returns true has taken effect completely: the       *)
(* record given is what a read of its key gives, every other key reads as  *)
(* before, and a conversation is the one new entry at the end of the log.  *)
(***************************************************************************)
C27_WritesAllOrNothing ==
  [][call'.op \in {"save_program", "save_user_profile", "save_conversation"} =>
       /\ call'.result \in BOOLEAN
       /\ ~call'.result => UNCHANGED <<programs, user_profiles, conversations>>
       /\ call'.result /\ call'.op = "save_program" =>
            /\ UNCHANGED <<user_profiles, conversations>>
            /\ \A i \in 1..Len(programs') :
                 row_program(programs'[i]) =
                   IF programs'[i].name = call'.args[1].name
                   THEN call'.args[1]
                   ELSE Value(get_program(programs, programs'[i].name, TRUE))
            /\ \A i \in 1..Len(programs) :
                 \E j \in 1..Len(programs') : programs'[j].name = programs[i].name
            /\ \E j \in 1..Len(programs') : programs'[j].name = call'.args[1].name
       /\ call'.result /\ call'.op = "save_user_profile" =>
            /\ UNCHANGED <<programs, conversations>>
            /\ DOMAIN user_profiles' = DOMAIN user_profiles \cup {call'.args[1].user_id}
            /\ \A u \in DOMAIN user_profiles' :
                 row_user_profile(user_profiles'[u]) =
                   IF u = call'.args[1].user_id
                   THEN call'.args[1]
                   ELSE row_user_profile(user_profiles[u])
       /\ call'.result /\ call'.op = "save_conversation" =>
            /\ UNCHANGED <<programs, user_profiles>>
            /\ conversations' =
                 Append(conversations,
                        [user_id |-> call'.args[1], message |-> call'.args[2],
                         response |-> call'.args[3], timestamp |-> call'.args[4]])]_vars

\* a save of a profile failed over a stored profile that differs from it, and
\* the stored profile still reads as before
C27_Witness ==
  /\ call.op = "save_user_profile"
  /\ ~call.result
  /\ call.existed
  /\ row_user_profile(user_profiles[call.args[1].user_id]) # call.args[1]
  /\ programs # <<>>
  /\ conversations # <<>>

\* the records of the table given to the saves
Supplied(table) == {save.record : save \in {s \in ConcurrentSaves : s.table = table}}

\* the call was a read that gave a record
RecordRead == call.op \in {"get_program", "get_user_profile"} /\ ~IsNone(call.result)

\* the call was a save that has returned
SaveReturned == call.op \in {"save_program", "save_user_profile"}

\* the record of the save that has returned is what the table holds under its key
TookEffect ==
  IF call.op = "save_program"
  THEN get_program(programs, call.args[1].name, TRUE) = Some(call.args[1])
  ELSE /\ call.args[1].user_id \in DOMAIN user_profiles
       /\ row_user_profile(user_profiles[call.args[1].user_id]) = call.args[1]

\* every row of the two tables is, in all fields, the record given to one save
WholeRows ==
  /\ \A i \in 1..Len(programs) : row_program(programs[i]) \in Supplied("programs")
  /\ \A u \in DOMAIN user_profiles :
       row_user_profile(user_profiles[u]) \in Supplied("user_profiles")

(***************************************************************************)
(* C25 as stated.  Under every interleaving of the callers, a record that  *)
(* a read returns is equal in all fields to the record given to one save,  *)
(* and every save made beside the save of another caller takes effect.     *)
(***************************************************************************)
C25_Original ==
  /\ RecordRead =>
       Value(call.result) \in Supplied("programs") \cup Supplied("user_profiles")
  /\ SaveReturned => TookEffect

(***************************************************************************)
(* C25.  Under every interleaving of the callers, every row of the tables  *)
(* and every record that a read returns is equal in all fields to the      *)
(* record given to one single save, never a mix of the fields of two, and  *)
(* has the key that was asked for.  A save that returns true has taken     *)
(* effect, and its commit leaves the rows of every other key as they were, *)
(* so saves of two callers under different keys that both return true are  *)
(* both in the table.  A save that finds the database locked by the save   *)
(* of another caller, or whose commit fails, returns false and changes     *)
(* nothing.                                                                *)
(***************************************************************************)
C25_AtomicUpsert ==
  /\ [](/\ WholeRows
        /\ RecordRead =>
             IF call.op = "get_program"
             THEN /\ Value(call.result) \in Supplied("programs")
                  /\ Value(call.result).name = call.args[1]
             ELSE /\ Value(call.result) \in Supplied("user_profiles")
                  /\ Value(call.result).user_id = call.args[1]
        /\ SaveReturned /\ call.result => TookEffect)
  /\ [][/\ call'.op = "save_user_profile" =>
             \A u \in DOMAIN user_profiles :
               \/ (call'.result /\ u = call'.args[1].user_id)
               \/ (u \in DOMAIN user_profiles' /\ user_profiles'[u] = user_profiles[u])
        /\ call'.op = "save_user_profile" /\ ~call'.result =>
             user_profiles' = user_profiles
        /\ call'.op # "save_user_profile" => user_profiles' = user_profiles
        /\ ~(call'.op = "save_program" /\ call'.result) => programs' = programs]_vars

\* a caller reads the profile of user 1 while the save of another caller over
\* that profile is executed and not committed, and gets the stored record; the
\* profile of user 2, saved by the other caller, is in the table
C25_Witness ==
  /\ call.op = "get_user_profile"
  /\ call.args[1] = 1
  /\ call.result = Some(ProfileInput(1))
  /\ \E c \in Callers \ {call.caller} :
       /\ Writing(c)
       /\ Value(call.pending[c]).table = "user_profiles"
       /\ Value(call.pending[c]).record.user_id = 1
       /\ Value(call.pending[c]).record # ProfileInput(1)
  /\ 2 \in DOMAIN user_profiles

RecommendationAsked == Calls(call.events, "generate_program_recommendation") # {}

C33_PipelineOrder ==
  IsGetResponse =>
    LET events == call.events
        reads == Calls(events, "get_user_profile") \cup Calls(events, "get_all_programs")
        stores == reads \cup Calls(events, "save_conversation")
    IN  /\ (IsNone(call.args[1]) \/ RejectedQuestion) => stores = {}
        /\ \A i \in reads :
             \E j \in 1..(i - 1) :
               /\ events[j].name = "is_relevant_question"
               /\ events[j].ret = TRUE
        /\ \A i \in Calls(events, "create") :
             /\ \E j \in 1..(i - 1) : events[j].name = "get_user_profile"
             /\ \E j \in 1..(i - 1) : events[j].name = "get_all_programs"
        /\ \A i \in Calls(events, "save_conversation") :
             \E j \in 1..(i - 1) :
               events[j].name = "create" /\ ~Unusable(events[j].ret)
        /\ conversations # call.before =>
             /\ ModelAnswered(events)
             /\ Calls(events, "save_conversation") # {}

\* A relevant question was answered and logged after both reads.
C33_Witness ==
  /\ IsGetResponse
  /\ call.args[1] = Some(Q_DIFFER)
  /\ Len(call.events) = 5
  /\ call.events[2].name = "get_user_profile"
  /\ call.events[3].name = "get_all_programs"
  /\ call.events[4].name = "create"
  /\ call.events[5].name = "save_conversation"
  /\ Len(conversations) = Len(call.before) + 1

(***************************************************************************)
(* Routing and the wizard, for one user.                                   *)
(***************************************************************************)
\* the handlers of the wizard, by the state they are registered for
WizardStep ==
  [state \in {ProfileStates[i] : i \in 1..4} |->
     CASE state = ProfileStates[1] -> "process_background"
       [] state = ProfileStates[2] -> "process_interests"
       [] state = ProfileStates[3] -> "process_skills"
       [] state = ProfileStates[4] -> "process_goals"]

\* the last update was a message that is not one of the commands
PlainMessage ==
  /\ call.kind = "message"
  /\ ~Command(CMD_START, call.update)
  /\ ~Command(CMD_HELP, call.update)

\* the handlers of /start and of the buttons that the wizard does not own
MenuHandlers ==
  {"cmd_start", "show_main_menu", "show_help", "compare_programs", "get_recommendation",
   "admission_guide", "user_profile_menu", "view_profile"}

\* the last handler called get_response
ReachedGetResponse == Calls(call.events, "is_relevant_question") # {}

CollectedKeys == {"background", "interests", "skills"}

C38_NoEmptyItems ==
  \A u \in DOMAIN user_profiles :
    \A items \in {user_profiles[u].interests, user_profiles[u].technical_skills,
                  user_profiles[u].career_goals} :
      \A i \in 1..Len(items) : items[i] # <<>>

\* the last handler built the prompt of a question
PromptBuilt ==
  /\ call.op \in {"process_question", "handle_other_messages"}
  /\ Calls(call.events, "create") # {}

\* the prompt says that no program is preferred
NoPreference == Holds(UserContent(call.events), PREFERRED_LABEL \o NOT_SPECIFIED \o <<"\n">>)

\* C39 as stated: the prompt of a question of a user with a stored profile always shows
\* the sentinel.
C39_Original ==
  (PromptBuilt /\ 1 \in DOMAIN user_profiles) => NoPreference

\* C39: a stored profile has created_at equal to updated_at and no preferred program;
\* each completed run stores the time of that run as created_at, the time of an earlier
\* run is not kept; the prompt of a question shows the sentinel for the preferred
\* program whenever get_user_profile returned the profile, and no profile block when the
\* read failed.
C39_StampedByLastRun ==
  /\ [](1 \in DOMAIN user_profiles =>
          /\ user_profiles[1].created_at = user_profiles[1].updated_at
          /\ IsNone(user_profiles[1].preferred_program))
  /\ [](call.op = "process_goals" /\ call.success = Some(TRUE) =>
          user_profiles[1].created_at = call.now)
  /\ [](PromptBuilt =>
          IF IsNone(Returns(call.events, "get_user_profile"))
          THEN ~Holds(UserContent(call.events), PREFERRED_LABEL)
          ELSE NoPreference)

\* A question was asked by a user whose profile came from a second run.
C39_Witness ==
  /\ PromptBuilt
  /\ ~IsNone(Returns(call.events, "get_user_profile"))
  /\ user_profiles[1].created_at = "2025-01-02T12:00:00"
  /\ NoPreference

\* the task t runs process_question
QuestionTask(t) == call.tasks[t].handler = "process_question"

\* the one call of get_response that the task t is to make
TheCall(t) == <<[text |-> call.tasks[t].update, user_id |-> 1]>>

\* The task t has called get_response once, with the text of its message and the id of
\* the sender, if it got as far as the call, and not at all before.
AskedOnce(t) ==
  /\ call.tasks[t].asked = IF call.tasks[t].stage = "returned" THEN TheCall(t) ELSE <<>>
  /\ call.tasks[t].pc \in {"answering", "apologising", "done"} =>
       call.tasks[t].stage = "returned"

\* The step ends the task t as done.
Ends(t) == call.tasks[t].pc # "done" /\ call'.tasks[t].pc = "done"

\* C31 as stated: a process_question task calls get_response once with the text and the
\* sender, and no exception leaves it, so that every such task comes to clear the state.
C31_Original ==
  \A t \in Tasks : QuestionTask(t) => AskedOnce(t) /\ call.tasks[t].pc # "failed"

\* C31: a process_question task calls get_response once, with the text of the message and
\* the id of the sender; when sending the answer raises, it sends the error reply; the
\* step that ends it clears the state of the chat, whether the answer or the error reply
\* was the one sent; an exception leaves it, and the state stays, only when
\* send_chat_action raised (get_response is then not called) or when the error reply
\* raised as well.
C31_ClearedAfterReply ==
  /\ [](\A t \in Tasks :
          QuestionTask(t) =>
            /\ AskedOnce(t)
            /\ call.tasks[t].pc = "apologising" =>
                 /\ Len(call.tasks[t].sent) = 2
                 /\ call.tasks[t].sent[2] = QUESTION_ERROR
            /\ call.tasks[t].pc = "failed" =>
                 \/ call.tasks[t].stage = "none" /\ call.tasks[t].sent = <<>>
                 \/ Len(call.tasks[t].sent) = 2)
  /\ [][\A t \in Tasks :
          QuestionTask(t) =>
            /\ Ends(t) => call'.fsm[call.tasks[t].chat] = NoContext
            /\ (call.tasks[t].pc # "failed" /\ call'.tasks[t].pc = "failed") =>
                 call'.fsm = call.fsm
            /\ (call.tasks[t].pc = "answering" /\ call'.tasks[t].pc # "answering") =>
                 call'.tasks[t].pc \in {"done", "apologising"}]_vars

\* A question was answered by the error reply after the answer was refused, and the
\* state of its chat is cleared.
C31_Witness ==
  \E t \in Tasks :
    /\ QuestionTask(t)
    /\ call.op = "resume"
    /\ call.task = t
    /\ call.tasks[t].pc = "done"
    /\ call.tasks[t].asked = TheCall(t)
    /\ Len(call.tasks[t].sent) = 2
    /\ call.tasks[t].sent[2] = QUESTION_ERROR
    /\ call.fsm[call.tasks[t].chat] = NoContext

\* the step is the return of the get_response of task t
GetResponseReturns(t) ==
  call.tasks[t].stage # "returned" /\ call'.tasks[t].stage = "returned"

\* C36: get_response gives the turn away nowhere: no state has a task inside
\* get_response, so no step of another task falls between its profile lookup, its model
\* call and its write to the log, and no two calls interleave; the step in which it
\* returns is the step in which it looked the profile up, so the profile it found is the
\* stored one when the entry is logged, and that step changes no other task.
C36_NoSuspension ==
  /\ [](\A t \in Tasks : call.tasks[t].stage \in {"none", "returned"})
  /\ [][\A t \in Tasks :
          GetResponseReturns(t) =>
            /\ call.tasks[t].stage = "none"
            /\ call.tasks[t].pc = "typing"
            /\ call'.tasks[t].seen = Some(user_profiles')
            /\ call'.tasks[t].logged =>
                 call'.tasks[t].profile = Some(get_user_profile(user_profiles', 1, TRUE))
            /\ \A other \in Tasks \ {t} : call'.tasks[other] = call.tasks[other]
            /\ call'.fsm = call.fsm]_vars

\* A question was logged with the profile that a process_goals task, delivered after the
\* question and still awaiting its answer, had saved in the meantime.
C36_Witness ==
  \E t \in Tasks, writer \in Tasks :
    /\ t < writer
    /\ call.op = "get_response"
    /\ call.task = t
    /\ call.tasks[t].logged
    /\ call.tasks[writer].handler = "process_goals"
    /\ call.tasks[writer].pc = "answering"
    /\ user_profiles # <<ProfileInput(1)>>
    /\ call.tasks[t].profile = Some(get_user_profile(user_profiles, 1, TRUE))

====
